---- MODULE Spec2Model ----
(***************************************************************************)
(* The course-record transformation engine of src/output.py, with the      *)
(* parsers of src/parse_course_name.py and the tables of src/parse.py.     *)
(*                                                                         *)
(* A Python str is a sequence of one-character strings, so that the        *)
(* regular expressions of the source are computed character by character. *)
(* Units are floats with at most one binary digit in the data (2.5, 3.0):  *)
(* the model stores twice the units as an integer.                         *)
(***************************************************************************)
EXTENDS Integers, Sequences, FiniteSets, TLC

----------------------------------------------------------------------------
(* Characters                                                              *)

Upper == {"A","B","C","D","E","F","G","H","I","J","K","L","M",
          "N","O","P","Q","R","S","T","U","V","W","X","Y","Z"}

Digit == {"0","1","2","3","4","5","6","7","8","9"}

DigitSeq == <<"0","1","2","3","4","5","6","7","8","9">>

UpperSeq == <<"A","B","C","D","E","F","G","H","I","J","K","L","M",
              "N","O","P","Q","R","S","T","U","V","W","X","Y","Z">>

LowerSeq == <<"a","b","c","d","e","f","g","h","i","j","k","l","m",
              "n","o","p","q","r","s","t","u","v","w","x","y","z">>

\* The characters of the model in code-point order (Python compares str by
\* code point); the two Thai letters that clean_course_title strips, U+0E22
\* and U+0E19, are written by their code points and come last.
CodePointOrder == <<" ", "&", "(", ")", "*", "-", ".", "/">> \o DigitSeq
                  \o UpperSeq \o <<"^", "_">> \o LowerSeq \o <<"U+0E22", "U+0E19">>

ord(c) == CHOOSE i \in 1..Len(CodePointOrder) : CodePointOrder[i] = c

\* \w of the re module (Unicode letters included), for \b
WordChar == Upper \cup Digit \cup {"_"} \cup {LowerSeq[i] : i \in 1..26}
            \cup {"U+0E22", "U+0E19"}

\* str.upper() on one character (re.I compares case-insensitively)
upper(c) == IF \E i \in 1..26 : LowerSeq[i] = c
            THEN UpperSeq[CHOOSE i \in 1..26 : LowerSeq[i] = c]
            ELSE c

UpperStr(s) == [i \in 1..Len(s) |-> upper(s[i])]

\* s < t for Python str
RECURSIVE StrLess(_, _)
StrLess(s, t) ==
    IF t = <<>> THEN FALSE
    ELSE IF s = <<>> THEN TRUE
    ELSE IF Head(s) = Head(t) THEN StrLess(Tail(s), Tail(t))
    ELSE ord(Head(s)) < ord(Head(t))

RECURSIVE lstrip(_, _)
lstrip(s, chars) ==
    IF s = <<>> \/ Head(s) \notin chars THEN s ELSE lstrip(Tail(s), chars)

RECURSIVE rstrip(_, _)
rstrip(s, chars) ==
    IF s = <<>> \/ s[Len(s)] \notin chars THEN s
    ELSE rstrip(SubSeq(s, 1, Len(s) - 1), chars)

\* str.strip(chars)
strip(s, chars) == rstrip(lstrip(s, chars), chars)

\* s[a-1:b] of Python on 1-based positions: out-of-range positions are clipped
Slice(s, a, b) ==
    LET lo == IF a < 1 THEN 1 ELSE a
        hi == IF b > Len(s) THEN Len(s) ELSE b
    IN  IF lo > hi THEN <<>> ELSE SubSeq(s, lo, hi)

startswith(s, prefix) ==
    Len(s) >= Len(prefix) /\ Slice(s, 1, Len(prefix)) = prefix

endswith(s, suffix) ==
    Len(s) >= Len(suffix) /\ Slice(s, Len(s) - Len(suffix) + 1, Len(s)) = suffix

\* the character of s at 1-based position i, or "" past the end
At(s, i) == IF i >= 1 /\ i <= Len(s) THEN s[i] ELSE ""

\* first position >= i that does not hold a character of cls, consuming at
\* most max characters (a greedy run of the regular expression)
RECURSIVE RunEnd(_, _, _, _)
RunEnd(s, i, cls, max) ==
    IF max = 0 \/ At(s, i) \notin cls THEN i ELSE RunEnd(s, i + 1, cls, max - 1)

SkipSpaces(s, i) == RunEnd(s, i, {" "}, Len(s))

----------------------------------------------------------------------------
(* src/parse_course_name.py                                                *)

\* Optional[Tuple[str, str, Optional["L"|"X"]]]: None is matched = FALSE;
\* has_lab is <<>> for None
NoParse == [matched |-> FALSE, subject |-> <<>>, number |-> <<>>, has_lab |-> <<>>]

\* length of a match of DF-?\d - at the head of s, 0 when there is none
DFMatchLen(s) ==
    IF ~startswith(s, <<"D","F">>) THEN 0
    ELSE IF At(s, 3) = "-" /\ At(s, 4) \in Digit
            /\ Slice(s, 5, 7) = <<" ","-"," ">> /\ Len(s) >= 7 THEN 7
    ELSE IF At(s, 3) \in Digit /\ Len(s) >= 6
            /\ Slice(s, 4, 6) = <<" ","-"," ">> THEN 6
    ELSE 0

\* re.sub(r"DF-?\d - ", "", name)
RECURSIVE RemoveDF(_)
RemoveDF(s) ==
    IF s = <<>> THEN <<>>
    ELSE IF DFMatchLen(s) > 0 THEN RemoveDF(Slice(s, DFMatchLen(s) + 1, Len(s)))
    ELSE <<Head(s)>> \o RemoveDF(Tail(s))

\* the optional group (?: *[&/] *\d?[A-Z]([LX]))? tried at position k:
\* the captured letter as a one-character sequence, <<>> when it fails
LabGroup(s, k) ==
    LET a == SkipSpaces(s, k)
        b == SkipSpaces(s, a + 1)
        c == IF At(s, b) \in Digit THEN b + 1 ELSE b
    IN  IF At(s, a) \in {"&", "/"} /\ At(s, c) \in Upper /\ At(s, c + 1) \in {"L", "X"}
        THEN <<At(s, c + 1)>>
        ELSE <<>>

\* MatchAt with the spaces before the number captured in the number
MatchAtSpacesInNumber(s, i, n) ==
    LET j  == SkipSpaces(s, i + n)
        d  == RunEnd(s, j, Digit, Len(s))
        e  == RunEnd(s, d, Upper, 2)
    IN  IF /\ i + n - 1 <= Len(s)
           /\ \A k \in i..(i + n - 1) : s[k] \in Upper
           /\ d > j
        THEN [matched |-> TRUE, subject |-> Slice(s, i, i + n - 1),
              number |-> Slice(s, i + n, e - 1), has_lab |-> LabGroup(s, e)]
        ELSE NoParse

\* the pattern anchored at position i with a subject of n letters
MatchAt(s, i, n) ==
    LET j  == SkipSpaces(s, i + n)
        d  == RunEnd(s, j, Digit, Len(s))
        e  == RunEnd(s, d, Upper, 2)
    IN  IF /\ i + n - 1 <= Len(s)
           /\ \A k \in i..(i + n - 1) : s[k] \in Upper
           /\ d > j
        THEN [matched |-> TRUE, subject |-> Slice(s, i, i + n - 1),
              number |-> Slice(s, j, e - 1), has_lab |-> LabGroup(s, e)]
        ELSE NoParse

\* \b before a letter: the previous character is not a word character
WordStart(s, i) == i = 1 \/ s[i - 1] \notin WordChar

\* [A-Z]{2,4} is greedy: four letters are tried first, then three, then two
TryAt(s, i) ==
    IF ~WordStart(s, i) THEN NoParse
    ELSE IF MatchAt(s, i, 4).matched THEN MatchAt(s, i, 4)
    ELSE IF MatchAt(s, i, 3).matched THEN MatchAt(s, i, 3)
    ELSE MatchAt(s, i, 2)

\* re.search: the leftmost position at which the pattern matches
RECURSIVE Search(_, _)
Search(s, i) ==
    IF i > Len(s) THEN NoParse
    ELSE IF TryAt(s, i).matched THEN TryAt(s, i)
    ELSE Search(s, i + 1)

parse_course_name(raw) ==
    LET name == strip(raw, {"^", "*", " "})
    IN  IF startswith(name, <<"A","D","V","."," ","C","H","E","M">>) THEN NoParse
        ELSE LET m == Search(RemoveDF(name), 1)
             IN  IF ~m.matched THEN NoParse
                 ELSE IF m.subject \in {<<"I","E">>, <<"R","R">>} THEN NoParse
                 ELSE m

\* position of the first character of the run of characters of cls that ends
\* at position i (i + 1 when s[i] is not in cls)
RECURSIVE RunStart(_, _, _, _)
RunStart(s, i, cls, max) ==
    IF max = 0 \/ At(s, i) \notin cls THEN i + 1 ELSE RunStart(s, i - 1, cls, max - 1)

\* re.match(r"(GE|DEI) */ *(GE|AWP|DEI)", title): the pair of groups, or
\* <<>> when the title does not start with the pattern
GeDeiMatch(title) ==
    LET g1 == IF startswith(title, <<"G","E">>) THEN <<"G","E">>
              ELSE IF startswith(title, <<"D","E","I">>) THEN <<"D","E","I">>
              ELSE <<>>
        a  == SkipSpaces(title, Len(g1) + 1)
        b  == SkipSpaces(title, a + 1)
        rest == Slice(title, b, Len(title))
        g2 == IF startswith(rest, <<"G","E">>) THEN <<"G","E">>
              ELSE IF startswith(rest, <<"A","W","P">>) THEN <<"A","W","P">>
              ELSE IF startswith(rest, <<"D","E","I">>) THEN <<"D","E","I">>
              ELSE <<>>
    IN  IF g1 # <<>> /\ At(title, a) = "/" /\ g2 # <<>> THEN <<g1, g2>> ELSE <<>>

\* re.sub(r" */ *(GE|AWP|DEI)$", "", title, flags=re.I)
StripQualifier(title) ==
    LET u   == UpperStr(title)
        tag == IF endswith(u, <<"G","E">>) THEN 2
               ELSE IF endswith(u, <<"A","W","P">>) THEN 3
               ELSE IF endswith(u, <<"D","E","I">>) THEN 3
               ELSE 0
        a   == RunStart(title, Len(title) - tag, {" "}, Len(title))
        b   == RunStart(title, a - 2, {" "}, Len(title))
    IN  IF tag > 0 /\ At(title, a - 1) = "/" THEN Slice(title, 1, b - 1) ELSE title

\* the words of the annotation, upper-cased for the re.I comparison
AnnotationWords == << <<"S","E","E"," ","N","O","T","E">>,
                      <<"D","E","I"," ","A","P","P","R","O","V","E","D">>,
                      <<"D","E","I">> >>

\* the alternative  *\(\*?(see note|DEI APPROVED|DEI)\*?\)$ with the word w:
\* the position at which its match starts, 0 when the title does not end so
AnnotationStart(title, w) ==
    LET u == UpperStr(title)
        n == Len(title)
        a == IF At(u, n - 1) = "*" THEN n - 2 ELSE n - 1   \* last letter of the word
        b == a - Len(w)                                    \* before the word
        c == IF At(u, b) = "*" THEN b - 1 ELSE b           \* the parenthesis
    IN  IF /\ At(u, n) = ")"
           /\ b >= 1
           /\ Slice(u, b + 1, a) = w
           /\ At(u, c) = "("
        THEN RunStart(title, c - 1, {" "}, n)
        ELSE 0

\* re.sub(r" *\(\*?(see note|DEI APPROVED|DEI)\*?\)$|^1 ", "", title, flags=re.I)
StripAnnotation(title) ==
    LET t == IF startswith(title, <<"1", " ">>) /\ AnnotationStart(title, AnnotationWords[1]) # 1
                /\ AnnotationStart(title, AnnotationWords[2]) # 1
                /\ AnnotationStart(title, AnnotationWords[3]) # 1
             THEN Slice(title, 3, Len(title)) ELSE title
        hits == {AnnotationStart(t, AnnotationWords[i]) : i \in 1..3} \ {0}
    IN  IF hits = {} THEN t
        ELSE Slice(t, 1, (CHOOSE h \in hits : \A g \in hits : h <= g) - 1)

\* re.sub(r" +", " ", title)
RECURSIVE CollapseSpaces(_)
CollapseSpaces(s) ==
    IF s = <<>> THEN <<>>
    ELSE IF Head(s) = " " THEN <<" ">> \o CollapseSpaces(lstrip(s, {" "}))
    ELSE <<Head(s)>> \o CollapseSpaces(Tail(s))

clean_course_title(raw) ==
    LET title == strip(raw, {"^", "*", " ", "U+0E22", "U+0E19"})
        match == GeDeiMatch(title)
    IN  IF match # <<>>
        THEN IF match[1] = <<"D","E","I">> \/ match[2] = <<"D","E","I">>
             THEN <<"D","E","I">> ELSE <<"G","E">>
        ELSE CollapseSpaces(StripAnnotation(StripQualifier(title)))

----------------------------------------------------------------------------
(* The course titles of the inputs.  Both parsers are pure, so their       *)
(* values on these titles are computed once and looked up afterwards.      *)

MATH_18  == <<"M","A","T","H"," ","1","8">>
MATH_20A == <<"M","A","T","H"," ","2","0","A">>
PHYS_2A_2AL == <<"P","H","Y","S"," ","2","A","/","2","A","L">>
GE == <<"G","E">>
SOCI_60 == <<"S","O","C","I"," ","6","0">>
SOCI_UD_METHODOLOGY ==
    <<"S","O","C","I","-"," ","U","D"," ","M","E","T","H","O","D","O","L","O","G","Y">>
MATH_11 == <<"M","A","T","H"," ","1","1">>
MATH_11_OR_PSYC_60 ==
    <<"M","A","T","H"," ","1","1"," ","O","R"," ","P","S","Y","C"," ","6","0">>
LISP_1C_1CX == <<"L","I","S","P"," ","1","C","/","1","C","X">>
PHYS_1C_1CL == <<"P","H","Y","S"," ","1","C","/","1","C","L">>

\* the titles of the plan rows and of the documents, and the titles that
\* get_courses makes of a course with a lab
Titles == << MATH_18, MATH_20A, PHYS_2A_2AL, GE, SOCI_60, SOCI_UD_METHODOLOGY,
             <<"P","H","Y","S"," ","2","A">>, <<"P","H","Y","S"," ","2","A","L">>,
             MATH_11, MATH_11_OR_PSYC_60, LISP_1C_1CX, PHYS_1C_1CL,
             <<"L","I","S","P"," ","1","C">>, <<"L","I","S","P"," ","1","C","X">>,
             <<"P","H","Y","S"," ","1","C">>, <<"P","H","Y","S"," ","1","C","L">> >>

RECURSIVE ParsedTitles(_)
ParsedTitles(i) ==
    IF i > Len(Titles) THEN << >>
    ELSE (Titles[i] :> parse_course_name(Titles[i])) @@ ParsedTitles(i + 1)

RECURSIVE CleanedTitles(_)
CleanedTitles(i) ==
    IF i > Len(Titles) THEN << >>
    ELSE (Titles[i] :> clean_course_title(Titles[i])) @@ CleanedTitles(i + 1)

ParseTable == ParsedTitles(1)
CleanTable == CleanedTitles(1)

\* parse_course_name(raw)
Parse(raw) == IF raw \in DOMAIN ParseTable THEN ParseTable[raw] ELSE parse_course_name(raw)

\* clean_course_title(raw)
Clean(raw) == IF raw \in DOMAIN CleanTable THEN CleanTable[raw] ELSE clean_course_title(raw)

----------------------------------------------------------------------------
(* src/parse.py: term codes and the prerequisite table                     *)

\* None of Python, as an optional college code
None == "None"

\* int(s) of a string of decimal digits
RECURSIVE int(_)
int(s) ==
    IF s = <<>> THEN 0
    ELSE 10 * int(Slice(s, 1, Len(s) - 1))
         + ((CHOOSE i \in 1..10 : DigitSeq[i] = s[Len(s)]) - 1)

\* TermCode.quarters
quarters == << <<"W","I">>, <<"S","P">>, <<"S","1">>, <<"S","2">>,
               <<"S","3">>, <<"S","U">>, <<"F","A">> >>

\* TermCode.quarter_value: list.index, 0-based
quarter_value(self) ==
    (CHOOSE i \in 1..Len(quarters) : quarters[i] = Slice(self, 1, 2)) - 1

\* TermCode.year
year(self) == 2000 + int(Slice(self, 3, 4))

\* TermCode.__lt__
TermLess(self, other) ==
    IF year(self) = year(other)
    THEN quarter_value(self) < quarter_value(other)
    ELSE year(self) < year(other)

\* Prerequisite(course_code, allow_concurrent)
Prerequisite(code, concurrent) ==
    [course_code |-> code, allow_concurrent |-> concurrent]

\* a dict with one more key (d[k] = v of Python)
DictSet(d, k, v) == (k :> v) @@ d

EmptyDict == << >>

\* the fix of possible errors in prereqs (#52), applied to every stored term
FixPrereqErrors(table) ==
    [t \in DOMAIN table |->
        DictSet(DictSet(table[t],
                        << <<"N","A","N","O">>, <<"1","0","2">> >>,
                        << <<Prerequisite(<< <<"C","H","E","M">>, <<"6","C">> >>, FALSE)>> >>),
                << <<"D","O","C">>, <<"2">> >>,
                << <<Prerequisite(<< <<"D","O","C">>, <<"1">> >>, FALSE)>> >>)]

\* min() of the stored term codes: min() compares with <, TermCode.__lt__
MinTerm(terms) == CHOOSE t \in terms : \A u \in terms : u = t \/ TermLess(t, u)

\* MaxTerm as if max() compared the term codes by TermCode.__lt__
MaxTermChronological(terms) ==
    CHOOSE t \in terms : \A u \in terms : u = t \/ TermLess(u, t)

\* max() of the stored term codes: max() compares with >, which TermCode
\* does not define (total_ordering adds no method that a base class has), so
\* that str.__gt__ compares the codes by code point
MaxTerm(terms) == CHOOSE t \in terms : \A u \in terms : u = t \/ StrLess(u, t)

\* prereqs(term) over the loaded table
prereqs(table, term) ==
    IF term \in DOMAIN table THEN table[term]
    ELSE IF TermLess(term, MinTerm(DOMAIN table)) THEN table[MinTerm(DOMAIN table)]
    ELSE table[MaxTerm(DOMAIN table)]

----------------------------------------------------------------------------
(* src/parse.py: academic plans                                            *)

\* PlannedCourse(course_title, units, type, overlaps_ge); units are doubled
PlannedCourse(title, units2, type, overlaps) ==
    [course_title |-> title, units |-> units2, type |-> type, overlaps_ge |-> overlaps]

\* MajorPlans.least_weird_colleges
least_weird_colleges == <<"TH", "WA", "SN", "MU", "FI", "RE", "SI">>

\* the quarters of a Plan: always 16, indexed from 0 as in Python
QuarterSlots == 16

RECURSIVE SelectSeq2(_, _)
\* concatenation of a sequence of sequences
SelectSeq2(seqs, i) ==
    IF i > Len(seqs) THEN <<>> ELSE seqs[i] \o SelectSeq2(seqs, i + 1)

IsMajorCourse(course) == course.type = "DEPARTMENT" \/ course.overlaps_ge

\* CurriculumCollege without the `break`: the last college of
\* least_weird_colleges with a plan
CurriculumCollegeLast(plans) ==
    LET have == {i \in 1..Len(least_weird_colleges) :
                    least_weird_colleges[i] \in DOMAIN plans}
    IN  IF have = {} THEN None
        ELSE least_weird_colleges[CHOOSE i \in have : \A j \in have : i >= j]

\* the college that MajorPlans.curriculum() falls back on: the first of
\* least_weird_colleges with a plan, None when the major has no plan
CurriculumCollege(plans) ==
    LET have == {i \in 1..Len(least_weird_colleges) :
                    least_weird_colleges[i] \in DOMAIN plans}
    IN  IF have = {} THEN None
        ELSE least_weird_colleges[CHOOSE i \in have : \A j \in have : i <= j]

\* MajorPlans.curriculum(): the courses of that plan, in quarter order, that
\* are department courses or overlap a general-education requirement
curriculum(plans) ==
    LET q == plans[CurriculumCollege(plans)]
    IN  SelectSeq2([i \in 1..QuarterSlots |-> SelectSeq(q[i - 1], IsMajorCourse)], 1)

----------------------------------------------------------------------------
(* src/output.py: records and tables                                       *)

\* a CourseCode is <<subject, number>>; ("", "") is the empty code
EmptyCode == << <<>>, <<>> >>

\* the bridge course whose prerequisites are never looked up
BridgeCode == << <<"M","A","T","H">>, <<"1","8">> >>

non_course_prereqs ==
    ( <<"S","O","C","I","-"," ","U","D"," ","M","E","T","H","O","D","O","L","O","G","Y">>
        :> << << <<"S","O","C","I">>, <<"6","0">> >> >> )
    @@ ( <<"T","D","H","D"," ","X","X","X">>
        :> << << <<"T","D","T","R">>, <<"1","0">> >> >> )

\* title -> (code, units), units doubled: 5, 6, 6 and 3 units
unit_overrides ==
    ( <<"M","A","T","H"," ","1","1">>
        :> [code |-> << <<"M","A","T","H">>, <<"1","1">> >>, units |-> 10] )
    @@ ( <<"C","A","T"," ","2">>
        :> [code |-> << <<"C","A","T">>, <<"2">> >>, units |-> 12] )
    @@ ( <<"C","A","T"," ","3">>
        :> [code |-> << <<"C","A","T">>, <<"3">> >>, units |-> 12] )
    @@ ( <<"P","H","Y","S"," ","1","C">>
        :> [code |-> << <<"P","H","Y","S">>, <<"1","C">> >>, units |-> 6] )

\* InputCourse(course, major_course, term)
InputCourse(course, major_course, term) ==
    [course |-> course, major_course |-> major_course, term |-> term]

\* InputCourse.process; an Optional argument is <<>> (None) or <<value>>
process(self, code, course_title, units) ==
    [course_title |-> Clean(IF course_title = <<>>
                                         THEN self.course.course_title
                                         ELSE course_title[1]),
     code         |-> IF code = <<>> THEN EmptyCode ELSE code[1],
     units        |-> IF units = <<>> THEN self.course.units ELSE units[1],
     major_course |-> self.major_course,
     term         |-> self.term]

----------------------------------------------------------------------------
(* src/output.py: OutputCourses                                            *)

\* OutputCourses.term_names
term_names == << <<"F","A">>, <<"W","I">>, <<"S","P">>, <<"S","1">> >>

\* f"{n:02d}" for 0 <= n < 100
Format02d(n) == <<DigitSeq[(n \div 10) + 1], DigitSeq[(n % 10) + 1]>>

\* TermCodeOf with three terms to the year
TermCodeOfThreePerYear(plan_year, term) ==
    term_names[(term % 3) + 1] \o Format02d((plan_year + (term \div 3)) % 100)

\* the term code that list_courses passes to prereqs()
TermCodeOf(plan_year, term) ==
    term_names[(term % 4) + 1] \o Format02d((plan_year + (term \div 4)) % 100)

\* a non-empty tuple is true in a Python condition
Truthy(code) == Len(code) > 0

\* step 3 of OutputCourses.__init__: IDs for the codes not yet in the table
RECURSIVE AssignCourseIds(_, _, _, _)
AssignCourseIds(processed_courses, i, current_id, course_ids) ==
    IF i > Len(processed_courses)
    THEN [current_id |-> current_id, course_ids |-> course_ids]
    ELSE LET code == processed_courses[i].code
         IN  IF Truthy(code) /\ code \notin DOMAIN course_ids
             THEN AssignCourseIds(processed_courses, i + 1, current_id + 1,
                                  DictSet(course_ids, code, current_id))
             ELSE AssignCourseIds(processed_courses, i + 1, current_id, course_ids)

\* DuplicateTitles with the titles counted from 1: the first occurrence
\* would be numbered 2
DuplicateTitlesFromOne(processed_courses) ==
    LET dup == {i \in 1..Len(processed_courses) :
                    \E j \in 1..(i - 1) :
                        processed_courses[j].course_title = processed_courses[i].course_title}
    IN  [title \in {processed_courses[i].course_title : i \in dup} |-> 1]

\* the titles that occur at an earlier index as well, each counted from 0
DuplicateTitles(processed_courses) ==
    LET dup == {i \in 1..Len(processed_courses) :
                    \E j \in 1..(i - 1) :
                        processed_courses[j].course_title = processed_courses[i].course_title}
    IN  [title \in {processed_courses[i].course_title : i \in dup} |-> 0]

\* OutputCourses.__init__
OutputCourses(processed_courses, start_id, course_ids, degree_plan, plan_year) ==
    LET assigned == AssignCourseIds(processed_courses, 1, start_id, course_ids)
    IN  [processed_courses |-> processed_courses,
         degree_plan       |-> degree_plan,
         year              |-> plan_year,
         current_id        |-> assigned.current_id,
         course_ids        |-> assigned.course_ids,
         duplicate_titles  |-> DuplicateTitles(processed_courses),
         claimed_ids       |-> DOMAIN assigned.course_ids]

\* `before` of find_prereq: a term index (int) or a course title (str)
BeforeTerm(term) == [is_int |-> TRUE, term |-> term, title |-> <<>>]
BeforeTitle(title) == [is_int |-> FALSE, term |-> 0, title |-> title]

\* what one call of find_prereq did: nothing (hit = FALSE), or one append of
\* id to coreq_ids (concurrent) or prereq_ids, for the processed course at
\* index pos (1-based); key_error when self.course_ids has no such key
NoPick == [hit |-> FALSE, pos |-> 0, id |-> 0, concurrent |-> FALSE, key_error |-> FALSE]

\* ReachedBoundary without the test on the title: the scan of a curriculum
\* would run to the end of the list
ReachedBoundaryTermOnly(course, before) ==
    before.is_int /\ course.term >= before.term

\* ReachedBoundary with > for >=: the scan would take in the courses of the
\* requiring course's own term
ReachedBoundaryLate(course, before) ==
    IF before.is_int THEN course.term > before.term
    ELSE course.course_title = before.title

\* the loop test of find_prereq that ends the scan at `course`
ReachedBoundary(course, before) ==
    IF before.is_int THEN course.term >= before.term
    ELSE course.course_title = before.title

\* index of the first alternative whose code is `code`, 0 when none
FirstAlternative(alternatives, code) ==
    LET m == {a \in 1..Len(alternatives) : alternatives[a].course_code = code}
    IN  IF m = {} THEN 0 ELSE CHOOSE a \in m : \A b \in m : a <= b

\* OutputCourses.find_prereq: the scan from processed course k on
RECURSIVE find_prereq(_, _, _, _)
find_prereq(self, alternatives, before, k) ==
    IF k > Len(self.processed_courses) THEN NoPick
    ELSE LET course == self.processed_courses[k]
             a == FirstAlternative(alternatives, course.code)
         IN  IF ReachedBoundary(course, before) THEN NoPick
             ELSE IF a > 0
             THEN [hit |-> TRUE, pos |-> k,
                   id |-> IF course.code \in DOMAIN self.course_ids
                          THEN self.course_ids[course.code] ELSE 0,
                   concurrent |-> alternatives[a].allow_concurrent,
                   key_error |-> course.code \notin DOMAIN self.course_ids]
             ELSE find_prereq(self, alternatives, before, k + 1)

\* RequirementGroups without the test `code != ("MATH", "18")`
RequirementGroupsOfAnyCode(self, table, course) ==
    IF course.course_title \in DOMAIN non_course_prereqs
    THEN [g \in 1..Len(non_course_prereqs[course.course_title]) |->
            [alternatives |-> <<Prerequisite(non_course_prereqs[course.course_title][g], FALSE)>>,
             before |-> BeforeTitle(course.course_title),
             from_table |-> FALSE]]
    ELSE LET reqs == prereqs(table, TermCodeOf(self.year, course.term))
         IN  IF course.code \in DOMAIN reqs
             THEN [g \in 1..Len(reqs[course.code]) |->
                    [alternatives |-> reqs[course.code][g],
                     before |-> IF self.degree_plan THEN BeforeTerm(course.term)
                                ELSE BeforeTitle(course.course_title),
                     from_table |-> TRUE]]
             ELSE <<>>

\* the requirement groups that list_courses resolves for a processed course,
\* each with the boundary it passes to find_prereq
RequirementGroups(self, table, course) ==
    IF course.course_title \in DOMAIN non_course_prereqs
    THEN [g \in 1..Len(non_course_prereqs[course.course_title]) |->
            [alternatives |-> <<Prerequisite(non_course_prereqs[course.course_title][g], FALSE)>>,
             before |-> BeforeTitle(course.course_title),
             from_table |-> FALSE]]
    ELSE IF course.code # BridgeCode
    THEN LET reqs == prereqs(table, TermCodeOf(self.year, course.term))
         IN  IF course.code \in DOMAIN reqs
             THEN [g \in 1..Len(reqs[course.code]) |->
                    [alternatives |-> reqs[course.code][g],
                     before |-> IF self.degree_plan THEN BeforeTerm(course.term)
                                ELSE BeforeTitle(course.course_title),
                     from_table |-> TRUE]]
             ELSE <<>>
    ELSE <<>>

\* the IDs appended by the picks, in order
RECURSIVE PickedIds(_, _)
PickedIds(picks, concurrent) ==
    IF picks = <<>> THEN <<>>
    ELSE (IF Head(picks).hit /\ Head(picks).concurrent = concurrent
          THEN <<Head(picks).id>> ELSE <<>>) \o PickedIds(Tail(picks), concurrent)

\* str(n) for n >= 0
RECURSIVE str(_)
str(n) == IF n < 10 THEN <<DigitSeq[n + 1]>>
          ELSE str(n \div 10) \o <<DigitSeq[(n % 10) + 1]>>

\* the OutputCourse yielded for processed course i, whose requirement groups
\* find_prereq resolved as `picks`.  pos, major_course, title, groups, picks
\* and was_claimed are not fields of OutputCourse: they record which
\* processed course the row is, which requirement groups it had, what
\* find_prereq did and whether the code was in self.claimed_ids.
YieldCourse(self, i, course, groups, picks, claimed, dup) ==
    [course_id    |-> IF claimed THEN self.course_ids[course.code] ELSE self.current_id,
     course_title |-> IF dup THEN course.course_title \o <<" ">>
                                  \o str(self.duplicate_titles[course.course_title] + 1)
                      ELSE course.course_title,
     code         |-> course.code,
     prereq_ids   |-> PickedIds(picks, FALSE),
     coreq_ids    |-> PickedIds(picks, TRUE),
     units        |-> course.units,
     term         |-> course.term,
     pos          |-> i,
     major_course |-> course.major_course,
     title        |-> course.course_title,
     groups       |-> groups,
     picks        |-> picks,
     was_claimed  |-> claimed]

\* AfterCourse without `self.claimed_ids.remove(course.code)`: a code listed
\* twice would claim the ID of the table twice
AfterCourseStillClaimed(self, course, claimed, dup) ==
    [self EXCEPT
        !.current_id = IF claimed THEN @ ELSE @ + 1,
        !.duplicate_titles = IF dup THEN [@ EXCEPT ![course.course_title] = @ + 1] ELSE @]

\* the OutputCourses object after the iteration for `course`
AfterCourse(self, course, claimed, dup) ==
    [self EXCEPT
        !.claimed_ids = IF claimed THEN @ \ {course.code} ELSE @,
        !.current_id = IF claimed THEN @ ELSE @ + 1,
        !.duplicate_titles = IF dup THEN [@ EXCEPT ![course.course_title] = @ + 1] ELSE @]

\* the prerequisite lookups of the iteration: one find_prereq per group
ResolveGroups(self, i, course, groups) ==
    YieldCourse(self, i, course, groups,
                [g \in 1..Len(groups) |->
                    find_prereq(self, groups[g].alternatives, groups[g].before, 1)],
                course.code \in self.claimed_ids,
                course.course_title \in DOMAIN self.duplicate_titles)

\* one iteration of the loop of list_courses, for processed course i: the
\* OutputCourses object afterwards and the records yielded (none when the
\* course is filtered out).  show_major is <<>> (None) or <<bool>>.
ListCoursesStep(self, table, show_major, i) ==
    IF show_major # <<>> /\ self.processed_courses[i].major_course # show_major[1]
    THEN [self |-> self, yielded |-> <<>>]
    ELSE [self    |-> AfterCourse(self, self.processed_courses[i],
                         self.processed_courses[i].code \in self.claimed_ids,
                         self.processed_courses[i].course_title
                             \in DOMAIN self.duplicate_titles),
          yielded |-> << ResolveGroups(self, i, self.processed_courses[i],
                            RequirementGroups(self, table, self.processed_courses[i])) >>]

\* the records of a step followed by those of the rest of the generator
Yielding(yielded, rest) == [self |-> rest.self, yielded |-> yielded \o rest.yielded]

RECURSIVE list_courses(_, _, _, _)
ContinueFrom(step, table, show_major, i) ==
    Yielding(step.yielded, list_courses(step.self, table, show_major, i + 1))

\* OutputCourses.list_courses(show_major), consumed to the end, from i on
list_courses(self, table, show_major, i) ==
    IF i > Len(self.processed_courses) THEN [self |-> self, yielded |-> <<>>]
    ELSE ContinueFrom(ListCoursesStep(self, table, show_major, i), table, show_major, i)

----------------------------------------------------------------------------
(* src/output.py: MajorOutput                                              *)

\* `if code not in self.course_ids`: the next ID for a code not in the table
AddCourseId(seeded, code) ==
    IF code \in DOMAIN seeded.course_ids THEN seeded
    ELSE [course_ids |-> DictSet(seeded.course_ids, code, seeded.start_id),
          start_id   |-> seeded.start_id + 1]

\* the body of the loop of populate_course_ids for one parsed title
SeedCourse(seeded, parsed) ==
    IF ~parsed.matched THEN seeded
    ELSE IF parsed.has_lab = <<>>
    THEN AddCourseId(seeded, <<parsed.subject, parsed.number>>)
    ELSE AddCourseId(AddCourseId(seeded, <<parsed.subject, parsed.number>>),
                     <<parsed.subject, parsed.number \o parsed.has_lab>>)

\* MajorOutput.populate_course_ids, from curriculum course i on; seeded is
\* self.course_ids and self.start_id so far
RECURSIVE populate_course_ids(_, _, _)
populate_course_ids(curric, i, seeded) ==
    IF i > Len(curric) THEN seeded
    ELSE populate_course_ids(curric, i + 1,
            SeedCourse(seeded, Parse(curric[i].course_title)))

\* MajorOutput.__init__(plans, start_id)
MajorOutput(plans_, start_id) ==
    [curriculum |-> curriculum(plans_)]
    @@ populate_course_ids(curriculum(plans_), 1,
                           [course_ids |-> EmptyDict, start_id |-> start_id])

\* sorted(quarter, key=lambda course: course.course_title.strip("^* ")):
\* a stable sort, here by insertion
SortKey(course) == strip(course.course_title, {"^", "*", " "})

RECURSIVE InsertSorted(_, _)
InsertSorted(sorted, course) ==
    IF sorted = <<>> THEN <<course>>
    ELSE IF StrLess(SortKey(course), SortKey(Head(sorted)))
         THEN <<course>> \o sorted
         ELSE <<Head(sorted)>> \o InsertSorted(Tail(sorted), course)

\* sorted without the sort: the courses in the order of the file
SortedAsPlanned(quarter) == quarter

RECURSIVE sorted(_)
sorted(quarter) ==
    IF quarter = <<>> THEN <<>>
    ELSE InsertSorted(sorted(Slice(quarter, 1, Len(quarter) - 1)), quarter[Len(quarter)])

\* TermOfQuarter without the move of the summer sessions
TermOfQuarterUnmoved(i) == i

\* the term index of quarter i: a summer session moves to the quarter before
TermOfQuarter(i) == i - ((i + 1) \div 4)

\* step 1 of get_courses: the InputCourses of a degree plan or a curriculum
course_input(self, plans_, college) ==
    IF college # None
    THEN SelectSeq2([n \in 1..QuarterSlots |->
            LET i == n - 1
                quarter == sorted(plans_[college][i])
            IN  [k \in 1..Len(quarter) |->
                    InputCourse(quarter[k], IsMajorCourse(quarter[k]), TermOfQuarter(i))]], 1)
    ELSE [k \in 1..Len(self.curriculum) |-> InputCourse(self.curriculum[k], TRUE, 0)]

\* SplitParsed with the units of a lab (3 and 2) for either suffix
SplitParsedLabUnits(input_course, parsed) ==
    IF parsed.matched
    THEN IF parsed.has_lab # <<>>
         THEN << process(input_course, << <<parsed.subject, parsed.number>> >>,
                         <<parsed.subject \o <<" ">> \o parsed.number>>, <<6>>),
                 process(input_course,
                         << <<parsed.subject, parsed.number \o parsed.has_lab>> >>,
                         <<parsed.subject \o <<" ">> \o parsed.number \o parsed.has_lab>>,
                         <<4>>) >>
         ELSE << process(input_course, << <<parsed.subject, parsed.number>> >>, <<>>, <<>>) >>
    ELSE << process(input_course, <<>>, <<>>, <<>>) >>

\* step 2 of get_courses for a title that parse_course_name parsed
SplitParsed(input_course, parsed) ==
    IF parsed.matched
    THEN IF parsed.has_lab # <<>>
         THEN << process(input_course, << <<parsed.subject, parsed.number>> >>,
                         <<parsed.subject \o <<" ">> \o parsed.number>>,
                         <<IF parsed.has_lab = <<"L">> THEN 6 ELSE 5>>),
                 process(input_course,
                         << <<parsed.subject, parsed.number \o parsed.has_lab>> >>,
                         <<parsed.subject \o <<" ">> \o parsed.number \o parsed.has_lab>>,
                         <<IF parsed.has_lab = <<"L">> THEN 4 ELSE 5>>) >>
         ELSE << process(input_course, << <<parsed.subject, parsed.number>> >>, <<>>, <<>>) >>
    ELSE << process(input_course, <<>>, <<>>, <<>>) >>

\* SplitLab without the table of unit overrides
SplitLabParsedOnly(input_course) ==
    SplitParsed(input_course, Parse(input_course.course.course_title))

\* step 2 of get_courses: the ProcessedCourses of one InputCourse
SplitLab(input_course) ==
    IF input_course.course.course_title \in DOMAIN unit_overrides
    THEN << process(input_course,
                    <<unit_overrides[input_course.course.course_title].code>>, <<>>,
                    <<unit_overrides[input_course.course.course_title].units>>) >>
    ELSE SplitParsed(input_course, Parse(input_course.course.course_title))

\* self.course_ids itself handed to OutputCourses, not a clone of it
ShareCourseIds(course_ids) == [dict |-> course_ids, shared |-> TRUE]

\* an empty dict handed to OutputCourses instead of the items of the table
NoCourseIds(course_ids) == [dict |-> EmptyDict, shared |-> FALSE]

\* {**self.course_ids}: a new dict with the same items, not shared with self
CloneCourseIds(course_ids) == [dict |-> course_ids, shared |-> FALSE]

\* step 2 of get_courses over all the InputCourses
ProcessedCourses(inputs) == SelectSeq2([k \in 1..Len(inputs) |-> SplitLab(inputs[k])], 1)

\* what get_courses hands back: the OutputCourses object, and self.course_ids
\* as the call leaves it (only a dict shared with the OutputCourses object
\* would have changed)
Got(self, arg, courses) ==
    [courses |-> courses,
     self_course_ids |-> IF arg.shared THEN courses.course_ids ELSE self.course_ids]

GetCoursesWith(self, processed, arg, degree_plan, plan_year) ==
    Got(self, arg, OutputCourses(processed, self.start_id, arg.dict, degree_plan, plan_year))

\* MajorOutput.get_courses(college)
get_courses(self, plans_, plan_year, college) ==
    GetCoursesWith(self, ProcessedCourses(course_input(self, plans_, college)),
                   CloneCourseIds(self.course_ids), college # None, plan_year)

\* the least of a set of indices
Earliest(entries) == CHOOSE e \in entries : \A d \in entries : e <= d

\* the rows of a render: those of the major section, then those of the
\* additional section
Sections(got, major, extra) ==
    [rows |-> major.yielded \o extra.yielded,
     n_major |-> Len(major.yielded),
     processed_courses |-> got.courses.processed_courses,
     first_free_id |-> got.courses.current_id,
     course_ids |-> got.courses.course_ids,
     claimed_ids |-> extra.self.claimed_ids,
     self_course_ids |-> got.self_course_ids]

\* AdditionalSection without the pass over the additional courses
AdditionalSectionSkipped(got, major, table, college) ==
    Sections(got, major, [self |-> major.self, yielded |-> <<>>])

AdditionalSection(got, major, table, college) ==
    Sections(got, major,
             IF college # None THEN list_courses(major.self, table, <<FALSE>>, 1)
             ELSE [self |-> major.self, yielded |-> <<>>])

MajorSection(got, table, college) ==
    AdditionalSection(got, list_courses(got.courses, table, <<TRUE>>, 1), table, college)

\* the loop `for major_course_section in True, False` of output_plan and
\* output_json: the OutputCourses of the major section, then (for a degree
\* plan) those of the additional section
RenderCourses(self, plans_, table, plan_year, college) ==
    MajorSection(get_courses(self, plans_, plan_year, college), table, college)

\* the number of Term objects of a degree plan's document
DegreePlanTerms == 12

\* Requisites with source and target exchanged
RequisitesToSource(ids, target_id, type) ==
    [k \in 1..Len(ids) |-> [source_id |-> target_id, target_id |-> ids[k], type |-> type]]

\* Requisite(source_id, target_id, type)
Requisites(ids, target_id, type) ==
    [k \in 1..Len(ids) |-> [source_id |-> ids[k], target_id |-> target_id, type |-> type]]

\* Item(name, id, credits, curriculum_requisites)
Item(row) ==
    [name |-> row.course_title, id |-> row.course_id, credits |-> row.units,
     curriculum_requisites |-> Requisites(row.prereq_ids, row.course_id, "prereq")
                               \o Requisites(row.coreq_ids, row.course_id, "coreq")]

RECURSIVE ItemsOfTerm(_, _)
ItemsOfTerm(rows, term) ==
    IF rows = <<>> THEN <<>>
    ELSE (IF Head(rows).term = term THEN <<Item(Head(rows))>> ELSE <<>>)
         \o ItemsOfTerm(Tail(rows), term)

\* the Curriculum that output_json returns for the yielded courses; an item
\* whose term is not an index of curriculum_terms raises IndexError
output_json(rows, college) ==
    LET n == IF college # None THEN DegreePlanTerms ELSE 1
    IN  IF \E k \in 1..Len(rows) : rows[k].term >= n
        THEN [kind |-> "IndexError", college |-> college]
        ELSE [kind |-> "json", college |-> college,
              curriculum_terms |-> [i \in 1..n |->
                  [id |-> i, curriculum_items |-> ItemsOfTerm(rows, i - 1)]]]

CURRICULUM_COLS == 10
DEGREE_PLAN_COLS == 11

\* f"{units:g}" of a number of half units
FormatUnits(units2) ==
    IF units2 % 2 = 0 THEN str(units2 \div 2) ELSE str(units2 \div 2) \o <<".", "5">>

RECURSIVE Join(_, _)
\* sep.join(map(str, ids))
Join(ids, sep) ==
    IF ids = <<>> THEN <<>>
    ELSE IF Len(ids) = 1 THEN str(ids[1])
    ELSE str(ids[1]) \o sep \o Join(Tail(ids), sep)

\* the row that output_plan yields for an OutputCourse, cut by rows_to_csv to
\* the number of columns of the file
CourseRow(row, columns) ==
    Slice(<< str(row.course_id), row.course_title, row.code[1], row.code[2],
             Join(row.prereq_ids, <<";">>), Join(row.coreq_ids, <<";">>), <<>>,
             FormatUnits(row.units), <<>>, <<>>, str(row.term + 1) >>, 1, columns)

\* the lines of MajorOutput.output(college) from the "Courses" row on: a
\* section is its marker row, the HEADER row and its course rows
output(rendered, college) ==
    LET cols  == IF college # None THEN DEGREE_PLAN_COLS ELSE CURRICULUM_COLS
        rows  == rendered.rows
        line(k) == [row |-> "course", fields |-> CourseRow(rows[k], cols)]
        major == [k \in 1..rendered.n_major |-> line(k)]
        extra == [k \in 1..(Len(rows) - rendered.n_major) |-> line(rendered.n_major + k)]
    IN  [kind |-> "csv", college |-> college, columns |-> cols,
         lines |-> << [row |-> "Courses", fields |-> <<>>],
                      [row |-> "HEADER", fields |-> <<>>] >> \o major
                   \o (IF college # None
                       THEN << [row |-> "Additional Courses", fields |-> <<>>],
                               [row |-> "HEADER", fields |-> <<>>] >> \o extra
                       ELSE <<>>)]

\* SeedJsonCourse with start_id raised to the course id, not one past it
SeedJsonCourseToId(seeded, course, parsed) ==
    [course_ids |-> IF parsed.matched
                    THEN DictSet(seeded.course_ids, <<parsed.subject, parsed.number>>,
                                 course.id)
                    ELSE seeded.course_ids,
     start_id   |-> IF course.id > seeded.start_id THEN course.id
                    ELSE seeded.start_id]

\* the body of the loop of from_json for one course of the document
SeedJsonCourse(seeded, course, parsed) ==
    [course_ids |-> IF parsed.matched
                    THEN DictSet(seeded.course_ids, <<parsed.subject, parsed.number>>,
                                 course.id)
                    ELSE seeded.course_ids,
     start_id   |-> IF course.id + 1 > seeded.start_id THEN course.id + 1
                    ELSE seeded.start_id]

\* MajorOutput.from_json over the courses of the document, from course i on
RECURSIVE SeedFromJson(_, _, _)
SeedFromJson(courses, i, seeded) ==
    IF i > Len(courses) THEN seeded
    ELSE SeedFromJson(courses, i + 1,
            SeedJsonCourse(seeded, courses[i], Parse(courses[i].name)))

from_json(plans_, courses) ==
    [curriculum |-> MajorOutput(plans_, 1).curriculum]
    @@ SeedFromJson(courses, 1, [course_ids |-> EmptyDict, start_id |-> 1])

----------------------------------------------------------------------------
(* Inputs: the academic plans, the prerequisite rows and the documents     *)

Code(subject, number) == <<subject, number>>
MATH == <<"M","A","T","H">>
PHYS == <<"P","H","Y","S">>

\* rows of the academic-plan file for one major: college, quarter index
\* ((plan_yr - 1) * 4 + plan_qtr - 1), course, doubled units, type, overlap
PlanRows == <<
    [college |-> "TH", quarter |-> 0, course |-> PlannedCourse(MATH_18, 8, "COLLEGE", FALSE)],
    [college |-> "TH", quarter |-> 0, course |-> PlannedCourse(GE, 8, "COLLEGE", FALSE)],
    [college |-> "TH", quarter |-> 1, course |-> PlannedCourse(MATH_20A, 8, "DEPARTMENT", FALSE)],
    [college |-> "TH", quarter |-> 4, course |-> PlannedCourse(MATH_18, 8, "DEPARTMENT", FALSE)],
    [college |-> "TH", quarter |-> 1, course |-> PlannedCourse(PHYS_2A_2AL, 10, "DEPARTMENT", FALSE)],
    [college |-> "TH", quarter |-> 2, course |-> PlannedCourse(SOCI_60, 8, "DEPARTMENT", FALSE)],
    [college |-> "TH", quarter |-> 2,
        course |-> PlannedCourse(SOCI_UD_METHODOLOGY, 8, "DEPARTMENT", FALSE)],
    [college |-> "WA", quarter |-> 1, course |-> PlannedCourse(MATH_18, 8, "COLLEGE", TRUE)],
    [college |-> "WA", quarter |-> 4, course |-> PlannedCourse(MATH_18, 8, "DEPARTMENT", FALSE)],
    [college |-> "TH", quarter |-> 3, course |-> PlannedCourse(GE, 8, "COLLEGE", FALSE)] >>

\* the start year of the plans (MajorPlans.year)
PlanYear == 2021

\* the largest number of rows of the academic-plan file for the major
MaxRows == 3

\* the colleges a caller asks for
Colleges == {"TH", "WA"}

\* the courses that the rows of `chosen` put in quarter q of college c, in
\* row order, from row i on (plan_rows_to_dict appends row after row)
RECURSIVE QuarterOf(_, _, _, _)
QuarterOf(chosen, c, q, i) ==
    IF i > Len(PlanRows) THEN <<>>
    ELSE (IF i \in chosen /\ PlanRows[i].college = c /\ PlanRows[i].quarter = q
          THEN <<PlanRows[i].course>> ELSE <<>>) \o QuarterOf(chosen, c, q, i + 1)

\* MajorPlans.plans for the chosen rows: a Plan for each college with a row
PlansOf(chosen) ==
    [c \in {PlanRows[i].college : i \in chosen} |->
        [q \in 0..(QuarterSlots - 1) |-> QuarterOf(chosen, c, q, 1)]]

\* the rulesets of the prerequisite file, by stored term code
PrereqRows ==
    LET FA21 ==
            ( Code(MATH, <<"2","0","A">>) :>
                << <<Prerequisite(Code(MATH, <<"1","8">>), FALSE),
                     Prerequisite(Code(MATH, <<"1","1">>), FALSE)>> >> )
            @@ ( Code(PHYS, <<"2","A">>) :>
                << <<Prerequisite(Code(MATH, <<"2","0","A">>), TRUE)>> >> )
            @@ ( Code(PHYS, <<"2","A","L">>) :>
                << <<Prerequisite(Code(PHYS, <<"2","A">>), TRUE)>>,
                   <<Prerequisite(Code(MATH, <<"2","0","A">>), FALSE)>> >> )
            @@ ( Code(MATH, <<"1","8">>) :>
                << <<Prerequisite(Code(MATH, <<"2","0","A">>), FALSE)>> >> )
        WI21 ==
            ( Code(MATH, <<"2","0","A">>) :>
                << <<Prerequisite(Code(MATH, <<"1","8">>), TRUE)>> >> )
            @@ ( Code(PHYS, <<"2","A">>) :>
                << <<Prerequisite(Code(MATH, <<"1","8">>), FALSE)>>,
                   <<Prerequisite(Code(MATH, <<"2","0","A">>), TRUE)>> >> )
            @@ ( Code(PHYS, <<"2","A","L">>) :>
                << <<Prerequisite(Code(PHYS, <<"2","A">>), TRUE)>> >> )
            @@ ( Code(MATH, <<"1","8">>) :>
                << <<Prerequisite(Code(MATH, <<"2","0","A">>), FALSE)>> >> )
    IN  (<<"F","A","2","1">> :> FA21) @@ (<<"W","I","2","1">> :> WI21)

\* course names and ids of the documents given to from_json
DocNames == {MATH_18, GE}
MaxDocId == 2

DocCourses == {[id |-> i, name |-> n] : i \in 1..MaxDocId, n \in DocNames}

\* the documents: no course, one course, or two courses with different ids
\* and names in either order
Documents ==
    {<<>>} \cup {<<c>> : c \in DocCourses}
           \cup {<<p[1], p[2]>> : p \in {q \in DocCourses \X DocCourses :
                                            q[1].id # q[2].id /\ q[1].name # q[2].name}}

----------------------------------------------------------------------------
(* The state machine                                                       *)

VARIABLES
    plans,          \* MajorPlans.plans of the major: college -> quarters
    prereq_table,   \* _prereqs of src/parse.py, loaded and fixed
    mo,             \* the MajorOutput: curriculum, course_ids, start_id
    built,          \* how mo was built, and its course_ids and start_id then
    rendered,       \* <<the OutputCourses that the last call yielded>>, or <<>>
    returned,       \* what the last call returned or raised
    input_course,   \* <<the InputCourse that step 2 of get_courses is given>>
    split,          \* the ProcessedCourses that step 2 made of it
    gens,           \* the output_plan generators that a caller holds
    lookup,         \* <<the last call of prereqs(): its term code and result>>
    parsed          \* the raw name given to parse_course_name and what it made of it

vars == <<plans, prereq_table, mo, built, rendered, returned, input_course, split, gens,
          lookup, parsed>>

\* the sets of rows of the academic-plan file that make up the major
Majors == {chosen \in SUBSET (1..Len(PlanRows)) :
                Cardinality(chosen) \in 1..MaxRows}

Init ==
    /\ plans \in {PlansOf(chosen) : chosen \in Majors}
    /\ prereq_table = FixPrereqErrors(PrereqRows)
    /\ mo = MajorOutput(plans, 1)
    /\ built = [how |-> "constructor", course_ids |-> mo.course_ids,
                start_id |-> mo.start_id, courses |-> <<>>, first |-> <<>>]
    /\ rendered = <<>>
    /\ returned = [kind |-> "none", college |-> None]
    /\ input_course = <<>>
    /\ split = <<>>
    /\ gens = <<>>
    /\ lookup = <<>>
    /\ parsed = <<>>

\* the render of a call for `college` on mo
Rendered(college) == RenderCourses(mo, plans, prereq_table, PlanYear, college)

Keep(college, r) ==
    [college |-> college, rows |-> r.rows, n_major |-> r.n_major,
     processed_courses |-> r.processed_courses, first_free_id |-> r.first_free_id,
     course_ids |-> r.course_ids, claimed_ids |-> r.claimed_ids]

\* a call that raises before get_courses has run
Raise(exception) ==
    /\ returned' = exception
    /\ rendered' = <<>>
    /\ UNCHANGED <<plans, prereq_table, mo, built, input_course, split, gens, lookup, parsed>>

\* a call that renders r and returns `result`
Return(college, r, result) ==
    /\ mo' = [mo EXCEPT !.course_ids = r.self_course_ids]
    /\ rendered' = <<Keep(college, r)>>
    /\ returned' = result
    /\ UNCHANGED <<plans, prereq_table, built, input_course, split, gens, lookup, parsed>>

OutputOf(college, r) == Return(college, r, output(r, college))

OutputJsonOf(college, r) == Return(college, r, output_json(r.rows, college))

\* Output without the test of output(): the KeyError(college) that the
\* lookup self.plans.plans[college] of get_courses raises
OutputLookupError(college) ==
    IF college # None /\ college \notin DOMAIN plans
    THEN Raise([kind |-> "KeyError", method |-> "output", college |-> college,
                message |-> college])
    ELSE OutputOf(college, Rendered(college))

\* MajorOutput.output(college): the CSV file, or KeyError before any row
Output(college) ==
    IF college # None /\ college \notin DOMAIN plans
    THEN Raise([kind |-> "KeyError", method |-> "output", college |-> college,
                message |-> "No degree plan available for " \o college \o "."])
    ELSE OutputOf(college, Rendered(college))

\* MajorOutput.output_json(college): the document; the lookup
\* self.plans.plans[college] of get_courses raises KeyError(college)
OutputJson(college) ==
    IF college # None /\ college \notin DOMAIN plans
    THEN Raise([kind |-> "KeyError", method |-> "output_json", college |-> college,
                message |-> college])
    ELSE OutputJsonOf(college, Rendered(college))

\* a new MajorOutput made by from_json from the courses of a document
Rebuilt(how, new, courses, first) ==
    /\ mo' = new
    /\ built' = [how |-> how, course_ids |-> new.course_ids,
                 start_id |-> new.start_id, courses |-> courses, first |-> first]
    /\ rendered' = <<>>
    /\ returned' = [kind |-> "none", college |-> None]
    /\ UNCHANGED <<plans, prereq_table, input_course, split, gens, lookup, parsed>>

\* MajorOutput.from_json(plans, json) on a document
FromJson(courses) ==
    /\ built.how = "constructor"
    /\ Rebuilt("from_json", from_json(plans, courses), courses, <<>>)

\* the courses (id and name) of the document of the curriculum just rendered
RenderedDocument(rows) ==
    [k \in 1..Len(rows) |-> [id |-> rows[k].course_id, name |-> rows[k].course_title]]

RebuiltFrom(rows, courses) ==
    Rebuilt("round_trip", from_json(plans, courses), courses, rows)

\* from_json on the curriculum that mo just rendered (src/update.py reads
\* back the curriculum that was uploaded)
FromRenderedJson ==
    /\ built.how = "constructor"
    /\ rendered # <<>>
    /\ rendered[1].college = None
    /\ RebuiltFrom(rendered[1].rows, RenderedDocument(rendered[1].rows))

Next ==
    \/ \E college \in Colleges \cup {None} : Output(college)
    \/ \E college \in Colleges \cup {None} : OutputJson(college)
    \/ \E courses \in Documents : FromJson(courses)
    \/ FromRenderedJson

Spec == Init /\ [][Next]_vars

----------------------------------------------------------------------------
(* A second major: courses up to the last quarter, a course planned twice  *)
(* before a non-course requirement, and requirement groups that share an   *)
(* alternative                                                             *)

\* rows of the academic-plan file for the second major
SecondRows == <<
    [college |-> "TH", quarter |-> 0, course |-> PlannedCourse(SOCI_60, 8, "COLLEGE", FALSE)],
    [college |-> "TH", quarter |-> 1, course |-> PlannedCourse(SOCI_60, 8, "DEPARTMENT", FALSE)],
    [college |-> "TH", quarter |-> 2,
        course |-> PlannedCourse(SOCI_UD_METHODOLOGY \o <<"*">>, 8, "DEPARTMENT", FALSE)],
    [college |-> "TH", quarter |-> 12, course |-> PlannedCourse(MATH_18, 8, "COLLEGE", FALSE)],
    [college |-> "TH", quarter |-> 13, course |-> PlannedCourse(PHYS_2A_2AL, 10, "DEPARTMENT", FALSE)],
    [college |-> "TH", quarter |-> 15, course |-> PlannedCourse(MATH_20A, 8, "DEPARTMENT", FALSE)] >>

\* MajorPlans.plans for each choice of at most MaxRows of these rows
SecondPlans ==
    {[c \in {SecondRows[i].college : i \in chosen} |->
        [q \in 0..(QuarterSlots - 1) |->
            LET InQuarter(row) == /\ row \in {SecondRows[i] : i \in chosen}
                                  /\ row.college = c /\ row.quarter = q
                rows == SelectSeq(SecondRows, InQuarter)
            IN  [k \in 1..Len(rows) |-> rows[k].course]]] :
        chosen \in {rows \in SUBSET (1..Len(SecondRows)) : Cardinality(rows) \in 1..MaxRows}}

\* the second major and a prerequisite file with one stored term, in which
\* two requirement groups of PHYS 2A and of PHYS 2AL list MATH 18
SecondInit ==
    /\ plans \in SecondPlans
    /\ prereq_table = FixPrereqErrors(
            <<"F","A","2","1">> :>
                ( ( Code(PHYS, <<"2","A">>) :>
                      << <<Prerequisite(Code(MATH, <<"1","8">>), FALSE)>>,
                         <<Prerequisite(Code(MATH, <<"1","8">>), TRUE),
                           Prerequisite(Code(MATH, <<"2","0","A">>), TRUE)>> >> )
                  @@ ( Code(PHYS, <<"2","A","L">>) :>
                      << <<Prerequisite(Code(MATH, <<"1","8">>), FALSE)>>,
                         <<Prerequisite(Code(MATH, <<"2","0","A">>), FALSE),
                           Prerequisite(Code(MATH, <<"1","8">>), FALSE)>> >> )
                  @@ ( Code(MATH, <<"2","0","A">>) :>
                      << <<Prerequisite(Code(PHYS, <<"2","A">>), TRUE)>> >> ) ))
    /\ mo = MajorOutput(plans, 1)
    /\ built = [how |-> "constructor", course_ids |-> mo.course_ids,
                start_id |-> mo.start_id, courses |-> <<>>, first |-> <<>>]
    /\ rendered = <<>>
    /\ returned = [kind |-> "none", college |-> None]
    /\ input_course = <<>>
    /\ split = <<>>
    /\ gens = <<>>
    /\ lookup = <<>>
    /\ parsed = <<>>

SecondSpec == SecondInit /\ [][Next]_vars

----------------------------------------------------------------------------
(* Step 2 of get_courses on one InputCourse                                *)

\* the raw titles of the courses: "MATH 11*", "CAT 2", "PHYS 1C" and
\* "PHYS 2B & 2BL" among them
RawTitles == {MATH_18, MATH_20A, PHYS_2A_2AL, LISP_1C_1CX, GE, SOCI_UD_METHODOLOGY,
              MATH_11, MATH_11_OR_PSYC_60, PHYS_1C_1CL,
              <<"M","A","T","H"," ","1","1","*">>, <<"C","A","T"," ","2">>,
              <<"P","H","Y","S"," ","1","C">>,
              <<"P","H","Y","S"," ","2","B"," ","&"," ","2","B","L">>}

\* the InputCourses that step 1 of get_courses makes of such courses, of 4
\* or 5 units (doubled), of either kind, in term 0 or 2
InputCourses ==
    {InputCourse(PlannedCourse(title, units, kind[1], kind[2]),
                 IsMajorCourse(PlannedCourse(title, units, kind[1], kind[2])), term) :
        title \in RawTitles, units \in {8, 10},
        kind \in {<<"DEPARTMENT", FALSE>>, <<"COLLEGE", FALSE>>, <<"COLLEGE", TRUE>>},
        term \in {0, 2}}

SplitInit ==
    /\ plans = PlansOf({1})
    /\ prereq_table = FixPrereqErrors(PrereqRows)
    /\ mo = MajorOutput(plans, 1)
    /\ built = [how |-> "constructor", course_ids |-> mo.course_ids,
                start_id |-> mo.start_id, courses |-> <<>>, first |-> <<>>]
    /\ rendered = <<>>
    /\ returned = [kind |-> "none", college |-> None]
    /\ input_course \in {<<c>> : c \in InputCourses}
    /\ split = <<>>
    /\ gens = <<>>
    /\ lookup = <<>>
    /\ parsed = <<>>

\* the body of the loop `for input_course in course_input` of get_courses
SplitLabCourse ==
    /\ split = <<>>
    /\ split' = SplitLab(input_course[1])
    /\ UNCHANGED <<plans, prereq_table, mo, built, rendered, returned, input_course, gens,
                   lookup, parsed>>

SplitSpec == SplitInit /\ [][SplitLabCourse]_vars

----------------------------------------------------------------------------
(* Two output_plan generators of one MajorOutput, resumed in any order     *)

Generators == {1, 2}

\* output_plan(college) called: a generator that has not run yet
NewGenerator(college) ==
    [pc |-> "start", college |-> college, self |-> <<>>, section |-> TRUE, i |-> 1,
     rows |-> <<>>, overlapped |-> FALSE]

StepInit ==
    /\ plans \in {PlansOf(chosen) : chosen \in Majors}
    /\ prereq_table = FixPrereqErrors(PrereqRows)
    /\ mo = MajorOutput(plans, 1)
    /\ built = [how |-> "constructor", course_ids |-> mo.course_ids,
                start_id |-> mo.start_id, courses |-> <<>>, first |-> <<>>]
    /\ rendered = <<>>
    /\ returned = [kind |-> "none", college |-> None]
    /\ input_course = <<>>
    /\ split = <<>>
    /\ gens \in [Generators -> {NewGenerator(college) : college \in Colleges \cup {None}}]
    /\ lookup = <<>>
    /\ parsed = <<>>

\* a generator after a resumption; overlapped when the other generator is
\* between its get_courses and its end
Resumed(g, gen) ==
    /\ gens' = [gens EXCEPT ![g] = [gen EXCEPT !.overlapped =
                    @ \/ \E h \in Generators \ {g} : gens[h].pc = "listing"]]
    /\ UNCHANGED <<plans, prereq_table, built, rendered, returned, input_course, split,
                   lookup, parsed>>

\* the generator after `processed = self.get_courses(college)`, at the
\* yield of the "Courses" row
GotCourses(g, got) ==
    /\ mo' = [mo EXCEPT !.course_ids = got.self_course_ids]
    /\ Resumed(g, [gens[g] EXCEPT !.pc = "listing", !.self = got.courses])

\* the first resumptions of output_plan: the rows of the head of the file,
\* then get_courses, which raises KeyError for a college without a plan
StepGetCourses(g) ==
    /\ gens[g].pc = "start"
    /\ IF gens[g].college # None /\ gens[g].college \notin DOMAIN plans
       THEN /\ Resumed(g, [gens[g] EXCEPT !.pc = "raised"])
            /\ UNCHANGED mo
       ELSE GotCourses(g, get_courses(mo, plans, PlanYear, gens[g].college))

\* the generator after the iteration of list_courses for processed course j
Listed(g, j, step) ==
    Resumed(g, [gens[g] EXCEPT !.self = step.self, !.i = j + 1,
                               !.rows = @ \o step.yielded])

\* a resumption of output_plan after get_courses: list_courses runs to its
\* next yield; at its end output_plan goes on to the additional courses of
\* a degree plan, or ends
StepNextCourse(g) ==
    /\ gens[g].pc = "listing"
    /\ UNCHANGED mo
    /\ LET gen  == gens[g]
           rest == {j \in gen.i..Len(gen.self.processed_courses) :
                        gen.self.processed_courses[j].major_course = gen.section}
       IN  IF rest # {}
           THEN Listed(g, Earliest(rest),
                       ListCoursesStep(gen.self, prereq_table, <<gen.section>>,
                                       Earliest(rest)))
           ELSE IF gen.section /\ gen.college # None
           THEN Resumed(g, [gen EXCEPT !.section = FALSE, !.i = 1])
           ELSE Resumed(g, [gen EXCEPT !.pc = "done"])

StepNext ==
    \/ \E g \in Generators : StepGetCourses(g)
    \/ \E g \in Generators : StepNextCourse(g)

StepSpec == StepInit /\ [][StepNext]_vars

----------------------------------------------------------------------------
(* The lookup of a ruleset: list_courses for a course of a quarter, and    *)
(* prereqs() called with a term code                                       *)

\* the term codes that the prerequisite file may hold rulesets for
StoredTerms ==
    { <<"W","I","2","1">>, <<"S","P","2","1">>, <<"S","1","2","1">>, <<"S","2","2","1">>,
      <<"S","U","2","1">>, <<"F","A","2","1">>, <<"F","A","2","0">>, <<"W","I","2","2">>,
      <<"F","A","2","2">>, <<"F","A","9","9">> }

\* the loaded tables: one or two stored terms, the ruleset of a term naming
\* the term (MATH 20A requires the course "<quarter> <year>")
TermTables ==
    {[t \in stored |->
        ( <<MATH, <<"2","0","A">> >> :>
            << <<Prerequisite(<<Slice(t, 1, 2), Slice(t, 3, 4)>>, FALSE)>> >> )] :
        stored \in {terms \in SUBSET StoredTerms : Cardinality(terms) \in 1..2}}

TermInit ==
    /\ plans = PlansOf({1})
    /\ prereq_table \in {FixPrereqErrors(table) : table \in TermTables}
    /\ mo = MajorOutput(plans, 1)
    /\ built = [how |-> "constructor", course_ids |-> mo.course_ids,
                start_id |-> mo.start_id, courses |-> <<>>, first |-> <<>>]
    /\ rendered = <<>>
    /\ returned = [kind |-> "none", college |-> None]
    /\ input_course = <<>>
    /\ split = <<>>
    /\ gens = <<>>
    /\ lookup = <<>>
    /\ parsed = <<>>

\* a call of prereqs(code) and what it returned
Looked(via, plan_year, quarter, term, code) ==
    /\ lookup' = << [via |-> via, year |-> plan_year, quarter |-> quarter, term |-> term,
                     code |-> code, reqs |-> prereqs(prereq_table, code)] >>
    /\ UNCHANGED <<plans, prereq_table, mo, built, rendered, returned, input_course,
                   split, gens, parsed>>

\* the lookup of list_courses for a course that a plan of start year
\* plan_year has in quarter i
ListCoursesLookup ==
    \E plan_year \in {2020, 2021, 2098}, i \in 0..(QuarterSlots - 1) :
        Looked("list_courses", plan_year, i, TermOfQuarter(i),
               TermCodeOf(plan_year, TermOfQuarter(i)))

\* prereqs(term) called with a term code
PrereqsCall ==
    \E term \in StoredTerms \cup { <<"S","P","2","3">>, <<"F","A","1","9">>,
                                    <<"S","3","2","1">>, <<"W","I","0","0">> } :
        Looked("prereqs", 0, 0, 0, term)

TermNext == ListCoursesLookup \/ PrereqsCall

TermSpec == TermInit /\ [][TermNext]_vars

----------------------------------------------------------------------------
(* parse_course_name on a raw name and on the name made of its result      *)

\* raw course names: a mark or a DF prefix, a subject, a number with or
\* without a space before it, and a lab, a note or a second course after it
CourseNames ==
    { head \o subject \o space \o number \o tail :
        head \in { <<>>, <<"*"," ">>, <<"D","F","-","1"," ","-"," ">> },
        subject \in { <<"M","A","T","H">>, <<"C","S","E">>, <<"I","E">>,
                      <<"T","D","H","D","X">> },
        space \in { <<>>, <<" ">> },
        number \in { <<"1","8">>, <<"2","0","A">>, <<"1","A","B">>, <<"X","X","X">> },
        tail \in { <<>>, <<"/","2","A","L">>, <<" ","&"," ","2","B","X">>, <<"*">>,
                   <<" ","O","R"," ","P","S","Y","C"," ","6","0">> } }
    \cup { <<"A","D","V","."," ","C","H","E","M"," ","1","2">> }

ParseInit ==
    /\ plans = PlansOf({1})
    /\ prereq_table = FixPrereqErrors(PrereqRows)
    /\ mo = MajorOutput(plans, 1)
    /\ built = [how |-> "constructor", course_ids |-> mo.course_ids,
                start_id |-> mo.start_id, courses |-> <<>>, first |-> <<>>]
    /\ rendered = <<>>
    /\ returned = [kind |-> "none", college |-> None]
    /\ input_course = <<>>
    /\ split = <<>>
    /\ gens = <<>>
    /\ lookup = <<>>
    /\ parsed = <<>>

\* parse_course_name(name), and parse_course_name on f"{subject} {number}"
\* of its result (the title that get_courses gives the first half of a lab
\* course, which from_json parses when it reads the courses back)
ParseCourseName ==
    \E name \in CourseNames :
        /\ parsed = <<>>
        /\ parsed' = << [name |-> name,
                         first |-> parse_course_name(name),
                         again |-> IF parse_course_name(name).matched
                                   THEN << parse_course_name(
                                             parse_course_name(name).subject \o <<" ">>
                                                 \o parse_course_name(name).number) >>
                                   ELSE <<>>] >>
        /\ UNCHANGED <<plans, prereq_table, mo, built, rendered, returned, input_course,
                       split, gens, lookup>>

ParseSpec == ParseInit /\ [][ParseCourseName]_vars

----------------------------------------------------------------------------
(* Properties of a render.  The vocabulary first.                          *)

\* the OutputCourses of the last call, in the order they were yielded
Rows == IF rendered = <<>> THEN <<>> ELSE rendered[1].rows
NextRows == IF rendered' = <<>> THEN <<>> ELSE rendered'[1].rows

\* the processed-course sequence of the last call
Processed == IF rendered = <<>> THEN <<>> ELSE rendered[1].processed_courses

IsDegreePlan == rendered # <<>> /\ rendered[1].college # None
IsCurriculum == rendered # <<>> /\ rendered[1].college = None

\* the IDs in prereq_ids and coreq_ids of a row
EdgeIds(row) ==
    {row.prereq_ids[n] : n \in 1..Len(row.prereq_ids)}
        \cup {row.coreq_ids[n] : n \in 1..Len(row.coreq_ids)}

\* the non-empty codes of some rows, and the first-listed row of a code
CodesOf(rows) == {rows[k].code : k \in 1..Len(rows)} \ {EmptyCode}
FirstListed(rows, code) ==
    CHOOSE k \in 1..Len(rows) :
        /\ rows[k].code = code
        /\ \A j \in 1..(k - 1) : rows[j].code # code
FirstId(rows, code) == rows[FirstListed(rows, code)].course_id

\* the row of the last call that was made of processed course `pos`
RowOfPos(pos) == CHOOSE k \in 1..Len(Rows) : Rows[k].pos = pos

\* the entries of the processed-course sequence before the boundary of a
\* requirement group, and those of them whose code is an alternative
BeforeBoundary(group) ==
    {e \in 1..Len(Processed) :
        \A d \in 1..e : ~ReachedBoundary(Processed[d], group.before)}
Candidates(group) ==
    {e \in BeforeBoundary(group) :
        \E a \in 1..Len(group.alternatives) :
            group.alternatives[a].course_code = Processed[e].code}

\* the table (OutputCourses.course_ids) and the first unassigned ID
\* (OutputCourses.current_id) of the last call, as OutputCourses.__init__
\* left them
Table == IF rendered = <<>> THEN EmptyDict ELSE rendered[1].course_ids
FirstFreeId == IF rendered = <<>> THEN 0 ELSE rendered[1].first_free_id

\* the course ids of the document that from_json was given
DocIds == {built.courses[n].id : n \in 1..Len(built.courses)}

\* a row whose ID is not the one the table of mo holds for its code
NewlyAllocated(k) ==
    ~(/\ Rows[k].code \in DOMAIN built.course_ids
      /\ FirstListed(Rows, Rows[k].code) = k)

----------------------------------------------------------------------------
\* C1: in a degree-plan render every ID in prereq_ids or coreq_ids is the ID
\* of an OutputCourse of the same render in a strictly lower term.
C1_EdgesFromEarlierTerms ==
    IsDegreePlan =>
        \A k \in 1..Len(Rows) : \A id \in EdgeIds(Rows[k]) :
            \E j \in 1..Len(Rows) :
                Rows[j].course_id = id /\ Rows[j].term < Rows[k].term

\* C2: in a curriculum render every ID in prereq_ids or coreq_ids is the ID
\* of an OutputCourse listed strictly earlier, and never the course's own ID.
C2_CurriculumEdgesFromEarlierRows ==
    IsCurriculum =>
        \A k \in 1..Len(Rows) : \A id \in EdgeIds(Rows[k]) :
            /\ id # Rows[k].course_id
            /\ \E j \in 1..(k - 1) : Rows[j].course_id = id

\* a curriculum render with an edge, and with a requirement group whose
\* alternative is listed only after the requiring course and adds nothing
C2_Witness ==
    /\ IsCurriculum
    /\ \E k \in 1..Len(Rows) : EdgeIds(Rows[k]) # {}
    /\ \E k \in 1..Len(Rows) : \E g \in 1..Len(Rows[k].groups) :
        /\ ~Rows[k].picks[g].hit
        /\ \E e \in (Rows[k].pos + 1)..Len(Processed) :
             \E a \in 1..Len(Rows[k].groups[g].alternatives) :
                Rows[k].groups[g].alternatives[a].course_code = Processed[e].code

\* C3: within one render of a MajorOutput built by the constructor, or by
\* from_json from a document with pairwise distinct course ids, no two
\* OutputCourses have the same ID, both sections together.
C3_IdsUniqueInRender ==
    (\/ built.how = "constructor"
     \/ \A m, n \in 1..Len(built.courses) :
            m # n => built.courses[m].id # built.courses[n].id)
    => \A j, k \in 1..Len(Rows) : j # k => Rows[j].course_id # Rows[k].course_id

\* a degree-plan render with both sections, a course with the empty code
\* and a code that is listed twice
C3_Witness ==
    /\ IsDegreePlan
    /\ rendered[1].n_major \in 1..(Len(Rows) - 1)
    /\ \E k \in 1..Len(Rows) : Rows[k].code = EmptyCode
    /\ \E j, k \in 1..Len(Rows) :
        j # k /\ Rows[j].code = Rows[k].code /\ Rows[j].code # EmptyCode

\* C4: a non-empty code rendered in the curriculum has the same ID in a
\* college's degree-plan render in which it appears: in both documents the
\* first-listed OutputCourse of the code gets the ID that the table of the
\* MajorOutput holds for the code.  Stated of a curriculum render and the
\* degree-plan render that follows it.
C4_SameIdInCurriculumAndDegreePlan ==
    [][(/\ IsCurriculum
        /\ rendered' # <<>>
        /\ rendered'[1].college # None)
       => \A code \in CodesOf(Rows) \cap CodesOf(NextRows) :
            /\ code \in DOMAIN mo.course_ids
            /\ FirstId(Rows, code) = mo.course_ids[code]
            /\ FirstId(NextRows, code) = mo.course_ids[code]]_vars

\* C5: a render never modifies the MajorOutput: course_ids and start_id
\* keep the values they had right after construction.
C5_RenderLeavesMajorOutput ==
    /\ mo.course_ids = built.course_ids
    /\ mo.start_id = built.start_id

\* a render gave an ID to a code that the table of the MajorOutput lacks
C5_Witness ==
    /\ rendered # <<>>
    /\ \E k \in 1..Len(Rows) :
        Rows[k].code # EmptyCode /\ Rows[k].code \notin DOMAIN mo.course_ids

\* C6: round trip: in the curriculum rendered by the MajorOutput that
\* from_json made of a rendered curriculum, every OutputCourse with a
\* non-empty code has the ID it had in the first render.
C6_RoundTripKeepsIds ==
    (built.how = "round_trip" /\ IsCurriculum) =>
        /\ Len(Rows) = Len(built.first)
        /\ \A k \in 1..Len(Rows) :
            Rows[k].code # EmptyCode => Rows[k].course_id = built.first[k].course_id

\* C7: after from_json start_id is 1 for an empty document and otherwise
\* one more than the largest course id of the document, and every ID newly
\* allocated in a later render is greater than every course id of the
\* document.
C7_NewIdsAboveDocument ==
    built.how # "constructor" =>
        /\ mo.start_id = IF built.courses = <<>> THEN 1
                         ELSE 1 + CHOOSE id \in DocIds : \A other \in DocIds : other <= id
        /\ \A k \in 1..Len(Rows) :
            NewlyAllocated(k) => \A id \in DocIds : Rows[k].course_id > id

\* a render after from_json on a document with courses allocated a new ID
C7_Witness ==
    /\ built.how = "from_json"
    /\ built.courses # <<>>
    /\ \E k \in 1..Len(Rows) : NewlyAllocated(k)

\* C8: a requirement group adds at most one ID: that of the earliest entry
\* of the processed-course sequence before the boundary whose code is an
\* alternative of the group, to coreq_ids if that alternative allows
\* concurrency and to prereq_ids otherwise; with no such entry it adds
\* nothing and raises no error.
C8_EarliestEntryPerGroup ==
    \A k \in 1..Len(Rows) :
        /\ Len(Rows[k].prereq_ids) + Len(Rows[k].coreq_ids)
                = Cardinality({g \in 1..Len(Rows[k].groups) : Rows[k].picks[g].hit})
        /\ \A g \in 1..Len(Rows[k].groups) :
            LET group == Rows[k].groups[g]
                pick  == Rows[k].picks[g]
            IN  /\ ~pick.key_error
                /\ IF Candidates(group) = {} THEN ~pick.hit
                   ELSE /\ pick.hit
                        /\ pick.pos = Earliest(Candidates(group))
                        /\ pick.id = Rows[RowOfPos(pick.pos)].course_id
                        /\ pick.concurrent =
                             group.alternatives[
                                FirstAlternative(group.alternatives,
                                                 Processed[pick.pos].code)].allow_concurrent

\* C9: in a degree plan, a requirement group taken from the prerequisite
\* table never selects a processed course whose term is the requiring
\* course's term or later; a group whose alternatives are all planned
\* there adds no edge.
C9_TableGroupsSelectEarlierTerms ==
    IsDegreePlan =>
        \A k \in 1..Len(Rows) : \A g \in 1..Len(Rows[k].groups) :
            Rows[k].groups[g].from_table =>
                /\ Rows[k].picks[g].hit =>
                        Processed[Rows[k].picks[g].pos].term < Rows[k].term
                /\ (\A e \in 1..Len(Processed) :
                        (\E a \in 1..Len(Rows[k].groups[g].alternatives) :
                            Rows[k].groups[g].alternatives[a].course_code
                                = Processed[e].code)
                        => Processed[e].term >= Rows[k].term)
                   => ~Rows[k].picks[g].hit

\* a degree plan where the only planned alternative of a group is in the
\* requiring course's own term, allows concurrency, and is not selected
C9_Witness ==
    /\ IsDegreePlan
    /\ \E k \in 1..Len(Rows) : \E g \in 1..Len(Rows[k].groups) :
        /\ Rows[k].groups[g].from_table
        /\ ~Rows[k].picks[g].hit
        /\ \E e \in 1..Len(Processed) : \E a \in 1..Len(Rows[k].groups[g].alternatives) :
            /\ Rows[k].groups[g].alternatives[a].course_code = Processed[e].code
            /\ Rows[k].groups[g].alternatives[a].allow_concurrent
            /\ Processed[e].term = Rows[k].term

\* C10 as stated: from one render of a MajorOutput to the next, a non-empty
\* code that appears in both has the same ID in both.
C10_CodeKeepsIdAcrossRenders ==
    [][(rendered # <<>> /\ rendered' # <<>>)
       => \A code \in CodesOf(Rows) \cap CodesOf(NextRows) :
            FirstId(Rows, code) = FirstId(NextRows, code)]_vars

\* C10, amended: a non-empty code in the table of the MajorOutput has, in
\* every render in which it appears, the ID the table held for it when the
\* MajorOutput was built (the first-listed course of the code gets it).
C10_TableCodeKeepsId ==
    \A code \in CodesOf(Rows) \cap DOMAIN built.course_ids :
        /\ code \in DOMAIN mo.course_ids
        /\ FirstId(Rows, code) = built.course_ids[code]

\* a degree-plan render with a code of the table and a code outside it
C10_Witness ==
    /\ IsDegreePlan
    /\ CodesOf(Rows) \cap DOMAIN built.course_ids # {}
    /\ CodesOf(Rows) \ DOMAIN built.course_ids # {}

\* C11 as stated: within one render any two OutputCourses with the same
\* non-empty code have the same ID.
C11_CodeHasOneId ==
    \A j, k \in 1..Len(Rows) :
        (Rows[j].code = Rows[k].code /\ Rows[j].code # EmptyCode)
            => Rows[j].course_id = Rows[k].course_id

\* C11, amended: within one render a non-empty code has one ID in the table
\* of the render, and of the OutputCourses with that code exactly the
\* first-listed one carries it; the others carry other IDs.
C11_FirstOfCodeCarriesTableId ==
    \A k \in 1..Len(Rows) :
        Rows[k].code # EmptyCode =>
            /\ Rows[k].code \in DOMAIN Table
            /\ (Rows[k].course_id = Table[Rows[k].code])
                    <=> (k = FirstListed(Rows, Rows[k].code))

\* a render with two OutputCourses of one non-empty code, the later one in
\* the other section
C11_Witness ==
    /\ IsDegreePlan
    /\ \E j \in 1..rendered[1].n_major :
       \E k \in (rendered[1].n_major + 1)..Len(Rows) :
            Rows[j].code = Rows[k].code /\ Rows[j].code # EmptyCode

\* C12: in a degree-plan render the ID of every additional OutputCourse is
\* greater than the ID of every major OutputCourse of the render.
C12_AdditionalIdsAboveMajorIds ==
    IsDegreePlan =>
        \A j \in 1..rendered[1].n_major :
        \A k \in (rendered[1].n_major + 1)..Len(Rows) :
            Rows[k].course_id > Rows[j].course_id

\* C13: during one render the first-listed course of a code of the claimed
\* set gets the ID the table holds for the code, and the code leaves the
\* claimed set; every later-listed course of the same code, the empty code
\* included, finds the code unclaimed and gets a new ID from the running
\* counter, which is no ID of the table and no ID given earlier in the
\* render.
C13_FirstClaimsLaterGetNewIds ==
    \A k \in 1..Len(Rows) :
        IF \E j \in 1..(k - 1) : Rows[j].code = Rows[k].code
        THEN /\ ~Rows[k].was_claimed
             /\ Rows[k].course_id >= FirstFreeId
             /\ \A code \in DOMAIN Table : Table[code] # Rows[k].course_id
             /\ \A j \in 1..(k - 1) : Rows[j].course_id # Rows[k].course_id
        ELSE Rows[k].code \in DOMAIN Table =>
                /\ Rows[k].was_claimed
                /\ Rows[k].course_id = Table[Rows[k].code]
                /\ Rows[k].code \notin rendered[1].claimed_ids

\* a render that lists two courses with the empty code: the first takes
\* the table's ID of the empty code, the second a new one
C13_Witness ==
    /\ rendered # <<>>
    /\ \E j, k \in 1..Len(Rows) :
        /\ j < k
        /\ Rows[j].code = EmptyCode /\ Rows[k].code = EmptyCode
        /\ Rows[j].was_claimed /\ ~Rows[k].was_claimed

\* the number of rows among the first k of the last call with the cleaned
\* title of row k
Occurrence(k) == Cardinality({j \in 1..k : Rows[j].title = Rows[k].title})

\* C14: a cleaned title that occurs n >= 2 times among the processed
\* courses of a render is output, for its k-th listed occurrence (major
\* pass, then additional pass), as the title, a space and k, and the
\* occurrences have distinct IDs; a title that occurs once is output
\* unchanged.
C14_DuplicateTitlesNumbered ==
    \A k \in 1..Len(Rows) :
        IF Cardinality({e \in 1..Len(Processed) :
                            Processed[e].course_title = Rows[k].title}) >= 2
        THEN /\ Rows[k].course_title = Rows[k].title \o <<" ">> \o str(Occurrence(k))
             /\ \A j \in 1..(k - 1) :
                    Rows[j].title = Rows[k].title => Rows[j].course_id # Rows[k].course_id
        ELSE Rows[k].course_title = Rows[k].title

\* a degree plan with two courses titled GE, output as "GE 1" and "GE 2",
\* and a course whose title occurs once
C14_Witness ==
    /\ IsDegreePlan
    /\ \E i, j, k \in 1..Len(Rows) :
        /\ Rows[i].title = GE /\ Rows[i].course_title = GE \o <<" ", "1">>
        /\ Rows[j].title = GE /\ Rows[j].course_title = GE \o <<" ", "2">>
        /\ Rows[i].course_id # Rows[j].course_id
        /\ Rows[k].title # GE /\ Rows[k].course_title = Rows[k].title

----------------------------------------------------------------------------
(* Properties of step 2 of get_courses                                     *)

\* the raw course that was split, and what parse_course_name made of its
\* title
Raw == input_course[1].course
RawParsed == Parse(Raw.course_title)
IsSplit == input_course # <<>> /\ split # <<>>

\* a ProcessedCourse with the term index and the major flag of the input
Tagged(code, title, units) ==
    [course_title |-> title, code |-> code, units |-> units,
     major_course |-> input_course[1].major_course, term |-> input_course[1].term]

\* C15: a raw course whose title is no override key and parses with a
\* suffix L or X yields two adjacent ProcessedCourses with the input's term
\* and major flag: the base course (subject, number), titled "subject
\* number", with 3 (L) or 2.5 (X) units, then the linked section (subject,
\* number+suffix), titled "subject number+suffix", with 2 (L) or 2.5 (X) units,
\* whatever the raw units; a parsed title without suffix yields one record
\* with the parsed code and the raw units, an unparseable title one record
\* with the empty code and the raw units.
C15_LabCoursesSplitInTwo ==
    (IsSplit /\ Raw.course_title \notin DOMAIN unit_overrides) =>
        IF ~RawParsed.matched
        THEN /\ Len(split) = 1
             /\ split[1].code = EmptyCode
             /\ split[1].units = Raw.units
             /\ split[1].major_course = input_course[1].major_course
             /\ split[1].term = input_course[1].term
        ELSE IF RawParsed.has_lab = <<>>
        THEN /\ Len(split) = 1
             /\ split[1].code = <<RawParsed.subject, RawParsed.number>>
             /\ split[1].units = Raw.units
             /\ split[1].major_course = input_course[1].major_course
             /\ split[1].term = input_course[1].term
        ELSE split =
                << Tagged(<<RawParsed.subject, RawParsed.number>>,
                          RawParsed.subject \o <<" ">> \o RawParsed.number,
                          IF RawParsed.has_lab = <<"L">> THEN 6 ELSE 5),
                   Tagged(<<RawParsed.subject, RawParsed.number \o RawParsed.has_lab>>,
                          RawParsed.subject \o <<" ">> \o RawParsed.number
                              \o RawParsed.has_lab,
                          IF RawParsed.has_lab = <<"L">> THEN 4 ELSE 5) >>

\* a course with suffix X and 4 raw units was split in two courses of 2.5
\* units
C15_Witness ==
    /\ IsSplit
    /\ RawParsed.matched /\ RawParsed.has_lab = <<"X">>
    /\ Raw.units = 8
    /\ Len(split) = 2
    /\ split[1].units = 5 /\ split[2].units = 5

\* `key` occurs in `title` without being all of it
ContainsKey(title, key) ==
    /\ title # key
    /\ \E i \in 1..(Len(title) - Len(key) + 1) : Slice(title, i, i + Len(key) - 1) = key

\* the raw title is an override key: one record, the override's code and
\* units, the input's term and major flag
OverrideApplied ==
    /\ Len(split) = 1
    /\ split[1].code = unit_overrides[Raw.course_title].code
    /\ split[1].units = unit_overrides[Raw.course_title].units
    /\ split[1].major_course = input_course[1].major_course
    /\ split[1].term = input_course[1].term

\* C16 as stated: a raw title that is a key of the unit-override table
\* yields one ProcessedCourse with the override's code and units and is
\* never split; a title that only contains a key is not overridden and
\* keeps its source units.
C16_OverrideOnlyExactTitle ==
    IsSplit =>
        /\ Raw.course_title \in DOMAIN unit_overrides => OverrideApplied
        /\ (\E key \in DOMAIN unit_overrides : ContainsKey(Raw.course_title, key))
                => \A n \in 1..Len(split) : split[n].units = Raw.units

\* C16, amended: a raw title that is a key of the unit-override table
\* yields one ProcessedCourse with the override's code and units and is
\* never split; a title that only contains a key is not overridden: it
\* keeps its source units unless it parses with a suffix L or X, and is
\* then split in two courses with the fixed units of the suffix.
C16_OverrideExactElseParsed ==
    IsSplit =>
        /\ Raw.course_title \in DOMAIN unit_overrides => OverrideApplied
        /\ (\E key \in DOMAIN unit_overrides : ContainsKey(Raw.course_title, key))
                => IF RawParsed.matched /\ RawParsed.has_lab # <<>>
                   THEN /\ Len(split) = 2
                        /\ split[1].units = (IF RawParsed.has_lab = <<"L">> THEN 6 ELSE 5)
                        /\ split[2].units = (IF RawParsed.has_lab = <<"L">> THEN 4 ELSE 5)
                   ELSE /\ Len(split) = 1
                        /\ split[1].units = Raw.units

\* "MATH 11" with 4 source units became one course (MATH, 11) of 5 units
C16_Witness ==
    /\ IsSplit
    /\ Raw.course_title = MATH_11
    /\ Raw.units = 8
    /\ split = << Tagged(<< MATH, <<"1","1">> >>, MATH_11, 10) >>

----------------------------------------------------------------------------
(* Properties of the calls                                                 *)

\* the last call was MajorOutput.output
CalledOutput ==
    \/ returned.kind = "csv"
    \/ returned.kind = "KeyError" /\ returned.method = "output"

\* C17: output(college) for a college that is no key of the major's plans
\* raises KeyError with a message that names the college, and no row of a
\* CSV file is produced.
C17_OutputRaisesKeyError ==
    (CalledOutput /\ returned.college # None /\ returned.college \notin DOMAIN plans)
        => /\ returned.kind = "KeyError"
           /\ returned.message = "No degree plan available for " \o returned.college \o "."
           /\ rendered = <<>>

\* output was called for a college for which the major has no plan
C17_Witness ==
    /\ CalledOutput
    /\ returned.kind = "KeyError"
    /\ returned.college \in Colleges \ DOMAIN plans

\* the courses of a college's plan from quarter q on, in quarter order,
\* that are DEPARTMENT courses or overlap general education
RECURSIVE MajorCoursesFrom(_, _)
MajorCoursesFrom(college, q) ==
    IF q >= QuarterSlots THEN <<>>
    ELSE SelectSeq(plans[college][q],
                   LAMBDA course : course.type = "DEPARTMENT" \/ course.overlaps_ge)
         \o MajorCoursesFrom(college, q + 1)

\* the last call rendered the curriculum
CalledForCurriculum == returned.kind # "none" /\ returned.college = None

\* C18: a major with at least one college plan gets a MajorOutput, and the
\* render of its curriculum succeeds; the curriculum is made of the plan of
\* the first college of TH, WA, SN, MU, FI, RE, SI that has one: that
\* plan's courses, in quarter order, that are DEPARTMENT courses or overlap
\* general education, and no others.
C18_CurriculumFromFirstCollege ==
    LET order == <<"TH", "WA", "SN", "MU", "FI", "RE", "SI">>
    IN  /\ \E i \in 1..Len(order) :
            /\ order[i] \in DOMAIN plans
            /\ \A j \in 1..(i - 1) : order[j] \notin DOMAIN plans
            /\ mo.curriculum = MajorCoursesFrom(order[i], 0)
        /\ CalledForCurriculum =>
            /\ returned.kind \in {"csv", "json"}
            /\ IsCurriculum
            /\ \A k \in 1..Len(Rows) : \A g \in 1..Len(Rows[k].picks) :
                    ~Rows[k].picks[g].key_error

\* the curriculum of a major without a TH plan was rendered: it is made of
\* the WA plan and has a COLLEGE course that overlaps general education
C18_Witness ==
    /\ CalledForCurriculum
    /\ returned.kind = "csv"
    /\ "TH" \notin DOMAIN plans /\ "WA" \in DOMAIN plans
    /\ \E k \in 1..Len(mo.curriculum) :
            mo.curriculum[k].type = "COLLEGE" /\ mo.curriculum[k].overlaps_ge
    /\ Len(Rows) >= 2

\* C19: an OutputCourse with the code (MATH, 18) has empty prereq_ids and
\* coreq_ids, in a curriculum and in a degree plan, whatever the
\* prerequisite table holds for the code and whatever courses precede it.
C19_BridgeCourseHasNoEdges ==
    \A k \in 1..Len(Rows) :
        Rows[k].code = <<MATH, <<"1", "8">> >> =>
            Rows[k].prereq_ids = <<>> /\ Rows[k].coreq_ids = <<>>

\* a render with a MATH 18 for whose term the prerequisite table has a
\* requirement with an alternative that is planned in an earlier term
C19_Witness ==
    /\ IsDegreePlan
    /\ \E k \in 1..Len(Rows) :
        /\ Rows[k].code = <<MATH, <<"1", "8">> >>
        /\ LET reqs == prereqs(prereq_table, TermCodeOf(PlanYear, Rows[k].term))
           IN  /\ Rows[k].code \in DOMAIN reqs
               /\ \E g \in 1..Len(reqs[Rows[k].code]) :
                  \E a \in 1..Len(reqs[Rows[k].code][g]) :
                  \E e \in 1..Len(Processed) :
                    /\ Processed[e].code = reqs[Rows[k].code][g][a].course_code
                    /\ Processed[e].term < Rows[k].term

----------------------------------------------------------------------------
(* Properties of interleaved renders                                       *)

\* the rows that output_plan(college) yields when the MajorOutput, as it
\* was built, runs it alone
AloneRows(college) ==
    RenderCourses([mo EXCEPT !.course_ids = built.course_ids, !.start_id = built.start_id],
                  plans, prereq_table, PlanYear, college).rows

IsPrefix(s, t) == Len(s) <= Len(t) /\ s = SubSeq(t, 1, Len(s))

\* generator g has run get_courses
Started(g) == gens # <<>> /\ gens[g].pc \in {"listing", "done"}

\* C20 as stated: a render whose steps were interleaved with those of
\* another render of the same MajorOutput, which has given IDs to courses,
\* ends with an output that differs from the output it produces when run
\* alone.
C20_InterleavedRenderDiffers ==
    \A g \in Generators : \A h \in Generators \ {g} :
        (/\ gens # <<>>
         /\ gens[g].pc = "done" /\ gens[g].overlapped /\ gens[g].rows # <<>>
         /\ Started(h) /\ gens[h].rows # <<>>)
            => gens[g].rows # AloneRows(gens[g].college)

\* C20, amended: the steps of two renders of one MajorOutput can be
\* interleaved in any order: each render has its own OutputCourses with its
\* own copy of the ID table, its own claimed set and its own counter, so at
\* every step it has yielded the rows that it yields when run alone, and
\* the MajorOutput is not changed.
C20_InterleavedRenderAsAlone ==
    \A g \in Generators :
        Started(g) =>
            LET alone == AloneRows(gens[g].college)
            IN  /\ IsPrefix(gens[g].rows, alone)
                /\ gens[g].pc = "done" => gens[g].rows = alone
                /\ mo.course_ids = built.course_ids

\* a render ended, a step of which ran while the other one was listing
\* courses; the other one has used an ID of its table for a code that the table of
\* the MajorOutput lacks, and this render lists a course of that code
C20_Witness ==
    /\ gens # <<>>
    /\ \E g \in Generators : \E h \in Generators \ {g} :
        /\ gens[g].pc = "done" /\ gens[g].overlapped
        /\ Started(h)
        /\ \E k \in 1..Len(gens[g].rows) : \E n \in 1..Len(gens[h].rows) :
            /\ gens[g].rows[k].code = gens[h].rows[n].code
            /\ gens[h].rows[n].code \notin DOMAIN mo.course_ids
            /\ gens[h].rows[n].code # EmptyCode
            /\ gens[g].rows[k].course_id # gens[h].rows[n].course_id

----------------------------------------------------------------------------
(* Properties of the lookup of a ruleset                                   *)

\* the last lookup, and whether list_courses made it
LookedUp == lookup[1]
ListCoursesLooked == lookup # <<>> /\ lookup[1].via = "list_courses"

\* C23: the ruleset that list_courses consults for a course with term index t
\* in a plan of start year y is the one that prereqs() selects for the term
\* code FA, WI, SP or S1 (t mod 4 = 0, 1, 2, 3) followed by the two decimal
\* digits of (y + t div 4) mod 100.
C23_RulesetOfTermCode ==
    ListCoursesLooked =>
        LET t  == LookedUp.term
            yy == (LookedUp.year + (t \div 4)) % 100
            season == IF t % 4 = 0 THEN <<"F","A">>
                      ELSE IF t % 4 = 1 THEN <<"W","I">>
                      ELSE IF t % 4 = 2 THEN <<"S","P">> ELSE <<"S","1">>
            code == season \o str(yy \div 10) \o str(yy % 10)
        IN  /\ LookedUp.code = code
            /\ LookedUp.reqs = prereqs(prereq_table, code)

\* C23 witness: a plan of start year 2098 looked up the ruleset of a course
\* with term index 8 under FA00, and the table holds no such term
C23_Witness ==
    /\ ListCoursesLooked
    /\ LookedUp.year = 2098 /\ LookedUp.term = 8
    /\ LookedUp.code = <<"F","A","0","0">>
    /\ LookedUp.code \notin DOMAIN prereq_table

\* C29 as stated: prereqs(term) returns the ruleset stored for term when the
\* table has it; otherwise that of the chronologically earliest stored term
\* when term precedes it, and else that of the chronologically latest stored
\* term (by year, then by quarter in the order WI, SP, S1, S2, S3, SU, FA).
C29_NearestStoredTermChronological ==
    lookup # <<>> =>
        LET stored == DOMAIN prereq_table
            first  == MinTerm(stored)
            last   == MaxTermChronological(stored)
        IN  LookedUp.reqs =
                IF LookedUp.code \in stored THEN prereq_table[LookedUp.code]
                ELSE IF TermLess(LookedUp.code, first) THEN prereq_table[first]
                ELSE prereq_table[last]

\* C30 as stated: the term code under which list_courses looks up the
\* ruleset of a course has the season of the quarter the course is planned
\* in: FA for a fall slot (quarter 4k), WI for a winter slot (4k + 1), SP
\* for a spring slot (4k + 2) and for the summer slot merged into it (4k + 3).
C30_SeasonOfPlannedQuarter ==
    ListCoursesLooked =>
        Slice(LookedUp.code, 1, 2) =
            IF LookedUp.quarter % 4 = 0 THEN <<"F","A">>
            ELSE IF LookedUp.quarter % 4 = 1 THEN <<"W","I">>
            ELSE <<"S","P">>

----------------------------------------------------------------------------
(* Properties of parse_course_name                                         *)

\* C22: when parse_course_name makes (subject, number, suffix) of a raw
\* name, it makes (subject, number) and no lab suffix of the name
\* "{subject} {number}".
C22_ParseOfParsedIsSame ==
    (parsed # <<>> /\ parsed[1].first.matched) =>
        /\ parsed[1].again # <<>>
        /\ parsed[1].again[1] = [matched |-> TRUE,
                                 subject |-> parsed[1].first.subject,
                                 number  |-> parsed[1].first.number,
                                 has_lab |-> <<>>]

\* C22 witness: a name with a DF prefix, no space before the number and a
\* lab after it was parsed with a suffix, and its subject and number again
C22_Witness ==
    /\ parsed # <<>>
    /\ parsed[1].name = <<"D","F","-","1"," ","-"," ","C","S","E","2","0","A","/","2","A","L">>
    /\ parsed[1].first = [matched |-> TRUE, subject |-> <<"C","S","E">>,
                          number |-> <<"2","0","A">>, has_lab |-> <<"L">>]
    /\ parsed[1].again # <<>>

----------------------------------------------------------------------------
(* Properties of the document of output_json                               *)

\* output_json ran get_courses, and the Term objects it returned
CalledOutputJson == returned.kind \in {"json", "IndexError"}
JsonTerms == returned.curriculum_terms

\* the places <<term object, item>> of the document
JsonPlaces ==
    UNION {{<<t, n>> : n \in 1..Len(JsonTerms[t].curriculum_items)} : t \in 1..Len(JsonTerms)}
JsonItem(place) == JsonTerms[place[1]].curriculum_items[place[2]]

\* C21: output_json returns a document with 12 term objects (ids 1..12) for
\* a degree plan and 1 for a curriculum; every processed course of the
\* render is exactly one item of it, in the term object at the position of
\* its term index, which is in 0..11 for a degree plan and 0 for a
\* curriculum.
C21_EveryCourseOneItemInItsTerm ==
    CalledOutputJson =>
        /\ returned.kind = "json"
        /\ Len(JsonTerms) = IF returned.college # None THEN 12 ELSE 1
        /\ \A t \in 1..Len(JsonTerms) : JsonTerms[t].id = t
        /\ Cardinality(JsonPlaces) = Len(Processed)
        /\ \A k \in 1..Len(Processed) :
            LET row == Rows[RowOfPos(k)]
                at  == {place \in JsonPlaces : JsonItem(place).id = row.course_id}
            IN  /\ Processed[k].term \in (IF returned.college # None THEN 0..11 ELSE {0})
                /\ Cardinality(at) = 1
                /\ \A place \in at :
                    /\ place[1] = Processed[k].term + 1
                    /\ JsonItem(place).name = row.course_title
                    /\ JsonItem(place).credits = Processed[k].units

\* C21 witness: the document of a degree plan with a course of the last
\* quarter slot in its twelfth term object and an additional course in
\* another one
C21_Witness ==
    /\ returned.kind = "json" /\ returned.college = "TH"
    /\ plans["TH"][15] # <<>>
    /\ JsonTerms[12].curriculum_items # <<>>
    /\ \E k \in 1..Len(Rows) : ~Rows[k].major_course /\ Rows[k].term < 11

----------------------------------------------------------------------------
(* Properties of the processed-course sequence                             *)

\* the entries of the sequence in term `term` that step 2 of get_courses
\* makes of planned course `course` (by their titles)
MadeOf(course, term) ==
    {k \in 1..Len(Processed) :
        /\ Processed[k].term = term
        /\ \E n \in 1..Len(SplitLab(InputCourse(course, TRUE, term))) :
              SplitLab(InputCourse(course, TRUE, term))[n].course_title
                  = Processed[k].course_title}

----------------------------------------------------------------------------
(* Properties of the edges of a render                                     *)

\* the entries of the processed-course sequence with code `code` before the
\* first entry with title `title`
CodeBeforeTitle(code, title) ==
    {e \in 1..Len(Processed) :
        /\ Processed[e].code = code
        /\ \A d \in 1..e : Processed[d].course_title # title}

\* C25 as stated: for a course whose cleaned title is a key of
\* non_course_prereqs the table is not consulted; each hardcoded code is a
\* group of its own with one alternative that is not concurrent, so that
\* coreq_ids is empty and prereq_ids holds at most one ID per hardcoded
\* code: the ID of the earliest processed course with that code before the
\* first processed course with the same title.
C25_NonCoursePrereqOfEarliest ==
    \A k \in 1..Len(Rows) :
        Rows[k].title \in DOMAIN non_course_prereqs =>
            LET codes  == non_course_prereqs[Rows[k].title]
                found  == {g \in 1..Len(codes) :
                              CodeBeforeTitle(codes[g], Rows[k].title) # {}}
            IN  /\ Len(Rows[k].groups) = Len(codes)
                /\ \A g \in 1..Len(codes) :
                    /\ ~Rows[k].groups[g].from_table
                    /\ Rows[k].groups[g].alternatives = <<Prerequisite(codes[g], FALSE)>>
                /\ Rows[k].coreq_ids = <<>>
                /\ Len(Rows[k].prereq_ids) = Cardinality(found)
                /\ {Rows[k].prereq_ids[n] : n \in 1..Len(Rows[k].prereq_ids)}
                     = {Rows[RowOfPos(Earliest(CodeBeforeTitle(codes[g], Rows[k].title)))].course_id :
                            g \in found}

\* C27: every ID in prereq_ids or coreq_ids of an OutputCourse is the ID of
\* an OutputCourse of the same render (the major and the additional pass of
\* a degree plan together), and no lookup of an edge ID in the table fails.
C27_NoDanglingEdge ==
    \A k \in 1..Len(Rows) :
        /\ \A id \in EdgeIds(Rows[k]) : \E j \in 1..Len(Rows) : Rows[j].course_id = id
        /\ \A g \in 1..Len(Rows[k].picks) : ~Rows[k].picks[g].key_error

\* C27 witness: a course of the major section of a degree plan has an edge
\* from a course that only the additional section lists
C27_Witness ==
    /\ IsDegreePlan
    /\ \E k \in 1..rendered[1].n_major : \E j \in (rendered[1].n_major + 1)..Len(Rows) :
        /\ Rows[j].course_id \in EdgeIds(Rows[k])
        /\ \A i \in 1..rendered[1].n_major : Rows[i].course_id # Rows[j].course_id

\* C28 as stated: in every OutputCourse no ID is repeated in prereq_ids or
\* in coreq_ids, and no ID is in both, even when several requirement groups
\* of the course list a common alternative.
C28_EdgeIdsNotRepeated ==
    \A k \in 1..Len(Rows) :
        /\ \A m, n \in 1..Len(Rows[k].prereq_ids) :
                Rows[k].prereq_ids[m] = Rows[k].prereq_ids[n] => m = n
        /\ \A m, n \in 1..Len(Rows[k].coreq_ids) :
                Rows[k].coreq_ids[m] = Rows[k].coreq_ids[n] => m = n
        /\ \A m \in 1..Len(Rows[k].prereq_ids), n \in 1..Len(Rows[k].coreq_ids) :
                Rows[k].prereq_ids[m] # Rows[k].coreq_ids[n]

----------------------------------------------------------------------------
(* The CSV file and the document of one render                             *)

\* the course rows of a CSV file, and those of them with Term column `term`
\* (a curriculum file has no such column: all its course rows)
CourseLines(csv) ==
    LET IsCourse(line) == line.row = "course"
    IN  SelectSeq(csv.lines, IsCourse)
CourseLinesOfTerm(csv, term) ==
    LET InTerm(line) == csv.college = None \/ line.fields[11] = str(term)
    IN  SelectSeq(CourseLines(csv), InTerm)

\* an item of the document describes the course of a row of the file
ItemIsLine(item, line) ==
    LET IsPrereq(req) == req.type = "prereq"
        IsCoreq(req)  == req.type = "coreq"
        pre == SelectSeq(item.curriculum_requisites, IsPrereq)
        co  == SelectSeq(item.curriculum_requisites, IsCoreq)
    IN  /\ line.fields[1] = str(item.id)
        /\ line.fields[2] = item.name
        /\ line.fields[8] = FormatUnits(item.credits)
        /\ item.curriculum_requisites = pre \o co
        /\ \A n \in 1..Len(item.curriculum_requisites) :
                item.curriculum_requisites[n].target_id = item.id
        /\ line.fields[5] = Join([n \in 1..Len(pre) |-> pre[n].source_id], <<";">>)
        /\ line.fields[6] = Join([n \in 1..Len(co) |-> co[n].source_id], <<";">>)

\* C26: output_json called after output on the same MajorOutput for the
\* same college (or none) returns a document that describes the courses of
\* the file: term by term the same courses in the order of the file, with
\* the same ID, title, units and term, and as requisites of an item the
\* prerequisite IDs of its row as "prereq", then the corequisite IDs as
\* "coreq", each with the item's own id as target_id.
C26_DocumentDescribesFile ==
    [][ (/\ returned.kind = "csv"
         /\ returned'.kind = "json"
         /\ returned'.college = returned.college)
        => /\ Len(CourseLines(returned)) = Len(rendered'[1].rows)
           /\ \A t \in 1..Len(returned'.curriculum_terms) :
                LET items == returned'.curriculum_terms[t].curriculum_items
                    lines == CourseLinesOfTerm(returned, t)
                IN  /\ Len(items) = Len(lines)
                    /\ \A n \in 1..Len(items) : ItemIsLine(items[n], lines[n]) ]_vars

\* C26 witness: the document of a degree plan with courses of both sections
\* and an item that has a requisite of either type
C26_Witness ==
    /\ returned.kind = "json" /\ returned.college = "TH"
    /\ rendered[1].n_major > 0 /\ rendered[1].n_major < Len(Rows)
    /\ \E place \in JsonPlaces :
        \E m, n \in 1..Len(JsonItem(place).curriculum_requisites) :
            /\ JsonItem(place).curriculum_requisites[m].type = "prereq"
            /\ JsonItem(place).curriculum_requisites[n].type = "coreq"

====
